---------------------------- MODULE Spec2Model ----------------------------
(***************************************************************************)
(* Heuristic ATS scoring engine of resumyx                                 *)
(* (backend/app/services/enhanced_ats_scorer.py) and the request handler   *)
(* that calls it (backend/app/api/routes.py, calculate_ats_score).         *)
(*                                                                         *)
(* Texts are strings; a character is a string of length 1.  Python's str   *)
(* methods, the regular expression of extract_keywords and the binary64    *)
(* arithmetic of the score formulas are modelled by what they compute.     *)
(***************************************************************************)
EXTENDS Integers, Sequences, FiniteSets, TLC

(***************************************************************************)
(* Characters and str methods                                              *)
(***************************************************************************)
UpperLetters == "ABCDEFGHIJKLMNOPQRSTUVWXYZ"

LowerLetters == "abcdefghijklmnopqrstuvwxyz"

Digits == "0123456789"

\* The non-word characters of the class [a-zA-Z0-9+#./-]
TokenPunct == "+#./-"

CharAt(s, i) == SubSeq(s, i, i)

CharsOf(s) == {CharAt(s, i) : i \in 1..Len(s)}

UpperSet == CharsOf(UpperLetters)

LetterSet == CharsOf(LowerLetters) \cup UpperSet

DigitSet == CharsOf(Digits)

\* \w of Python's re on str, restricted to ASCII
WordSet == LetterSet \cup DigitSet \cup {"_"}

\* [a-zA-Z0-9+#./-]
TokenClassSet == LetterSet \cup DigitSet \cup CharsOf(TokenPunct)

\* the lowercase of each uppercase letter
LowerOf ==
  [c \in UpperSet |->
     CharAt(LowerLetters, CHOOSE i \in 1..Len(UpperLetters) : CharAt(UpperLetters, i) = c)]

IsLetter(c) == c \in LetterSet

IsDigit(c) == c \in DigitSet

IsWordChar(c) == c \in WordSet

InTokenClass(c) == c \in TokenClassSet

LowerChar(c) == IF c \in UpperSet THEN LowerOf[c] ELSE c

\* s[lo..hi] lowercased, by halves
RECURSIVE LowerRange(_, _, _)
LowerRange(s, lo, hi) ==
  IF lo > hi THEN ""
  ELSE IF lo = hi THEN LowerChar(CharAt(s, lo))
  ELSE LET mid == (lo + hi) \div 2
       IN  LowerRange(s, lo, mid) \o LowerRange(s, mid + 1, hi)

\* str.lower()
Lower(s) == LowerRange(s, 1, Len(s))

\* parts[lo..hi] joined by sep, by halves
RECURSIVE JoinRange(_, _, _, _)
JoinRange(sep, parts, lo, hi) ==
  IF lo > hi THEN ""
  ELSE IF lo = hi THEN parts[lo]
  ELSE LET mid == (lo + hi) \div 2
       IN  JoinRange(sep, parts, lo, mid) \o sep \o JoinRange(sep, parts, mid + 1, hi)

\* sep.join(parts)
Join(sep, parts) == JoinRange(sep, parts, 1, Len(parts))

\* needle in haystack
Contains(haystack, needle) ==
  \E i \in 1..(Len(haystack) - Len(needle) + 1) :
     SubSeq(haystack, i, i + Len(needle) - 1) = needle

\* any(char.isdigit() for char in s)
HasDigit(s) == \E i \in 1..Len(s) : IsDigit(CharAt(s, i))

(***************************************************************************)
(* re.findall(r'\b[a-zA-Z][a-zA-Z0-9+#./-]*\b', text)                      *)
(***************************************************************************)
IsWordAt(t, i) == i >= 1 /\ i <= Len(t) /\ IsWordChar(CharAt(t, i))

\* \b between positions i and i+1 (i = 0 is the start, i = Len(t) the end)
Boundary(t, i) == IsWordAt(t, i) # IsWordAt(t, i + 1)

\* the greedy extent of [a-zA-Z0-9+#./-]* from position j
RECURSIVE ClassRunEnd(_, _)
ClassRunEnd(t, j) ==
  IF j < Len(t) /\ InTokenClass(CharAt(t, j + 1)) THEN ClassRunEnd(t, j + 1) ELSE j

\* backtracking of the star until the closing \b holds; 0 when no end does
RECURSIVE BacktrackEnd(_, _, _)
BacktrackEnd(t, i, j) ==
  IF j < i THEN 0
  ELSE IF Boundary(t, j) THEN j
  ELSE BacktrackEnd(t, i, j - 1)

\* the end of the match that starts at i, or 0 when none starts there
MatchEnd(t, i) ==
  IF IsLetter(CharAt(t, i)) /\ Boundary(t, i - 1)
  THEN BacktrackEnd(t, i, ClassRunEnd(t, i))
  ELSE 0

\* the scan from position i on: the next match is the one at the leftmost
\* position >= i where a match starts (ends[j] # 0), and the scan resumes
\* after its end
RECURSIVE FindAllFrom(_, _, _)
FindAllFrom(t, ends, i) ==
  LET starts == {j \in i..Len(t) : ends[j] # 0}
  IN  IF starts = {} THEN <<>>
      ELSE LET j == CHOOSE k \in starts : \A l \in starts : k <= l
           IN  <<SubSeq(t, j, ends[j])>> \o FindAllFrom(t, ends, ends[j] + 1)

FindAll(t) == FindAllFrom(t, [j \in 1..Len(t) |-> MatchEnd(t, j)], 1)


(***************************************************************************)
(* Python float (IEEE-754 binary64) arithmetic of the score formulas.      *)
(* A natural number of any size is a little-endian sequence of limbs in    *)
(* base 2^15; a float is m * 2^e with m such a number of at most 54 bits.  *)
(* Every operation computes the exact result and rounds it to 53           *)
(* significant bits, ties to even.  All values here are >= 0 and far from  *)
(* the overflow and subnormal ranges.                                      *)
(***************************************************************************)
LimbBits == 15

LimbBase == 2 ^ LimbBits

\* significant bits of a binary64
Precision == 53

\* extra quotient bits computed by a division before rounding
DivShift == 5 * LimbBits

RECURSIVE BNorm(_)
BNorm(s) == IF s # <<>> /\ s[Len(s)] = 0 THEN BNorm(SubSeq(s, 1, Len(s) - 1)) ELSE s

RECURSIVE BFromInt(_)
BFromInt(n) == IF n = 0 THEN <<>> ELSE <<n % LimbBase>> \o BFromInt(n \div LimbBase)

RECURSIVE BToInt(_)
BToInt(s) == IF s = <<>> THEN 0 ELSE s[1] + LimbBase * BToInt(Tail(s))

RECURSIVE BMulCarry(_, _, _)
BMulCarry(s, k, carry) ==
  IF s = <<>> THEN BFromInt(carry)
  ELSE LET v == s[1] * k + carry
       IN  <<v % LimbBase>> \o BMulCarry(Tail(s), k, v \div LimbBase)

\* s * k for 0 <= k <= 2^15
BMulSmall(s, k) == BNorm(BMulCarry(s, k, 0))

RECURSIVE BAddCarry(_, _, _)
BAddCarry(s, t, carry) ==
  IF s = <<>> /\ t = <<>> THEN BFromInt(carry)
  ELSE LET a == IF s = <<>> THEN 0 ELSE s[1]
           b == IF t = <<>> THEN 0 ELSE t[1]
           v == a + b + carry
       IN  <<v % LimbBase>> \o
           BAddCarry(IF s = <<>> THEN s ELSE Tail(s), IF t = <<>> THEN t ELSE Tail(t),
                     v \div LimbBase)

BAdd(s, t) == BNorm(BAddCarry(s, t, 0))

\* long division by 0 < d <= 2^15, from the most significant limb down
RECURSIVE BDivFrom(_, _, _)
BDivFrom(s, d, i) ==
  IF i > Len(s) THEN [q |-> <<>>, r |-> 0]
  ELSE LET hi == BDivFrom(s, d, i + 1)
           v  == hi.r * LimbBase + s[i]
       IN  [q |-> <<v \div d>> \o hi.q, r |-> v % d]

BDivSmall(s, d) == LET x == BDivFrom(s, d, 1) IN [q |-> BNorm(x.q), r |-> x.r]

RECURSIVE IntBitLen(_)
IntBitLen(n) == IF n = 0 THEN 0 ELSE 1 + IntBitLen(n \div 2)

BBitLen(s) == IF s = <<>> THEN 0 ELSE LimbBits * (Len(s) - 1) + IntBitLen(s[Len(s)])

BIsOdd(s) == s # <<>> /\ s[1] % 2 = 1

\* s * 2^n
BShl(s, n) ==
  IF s = <<>> THEN s
  ELSE [i \in 1..(n \div LimbBits) |-> 0] \o BMulSmall(s, 2 ^ (n % LimbBits))

\* floor(s / 2^n), and whether bits were lost
BShr(s, n) ==
  LET w    == n \div LimbBits
      low  == SubSeq(s, 1, IF w < Len(s) THEN w ELSE Len(s))
      high == SubSeq(s, w + 1, Len(s))
      d    == BDivSmall(high, 2 ^ (n % LimbBits))
  IN  [q |-> d.q, sticky |-> d.r # 0 \/ \E i \in 1..Len(low) : low[i] # 0]

\* the float nearest to n * 2^e (+ a fraction of 2^e when sticky), ties to even
FRound(n, e, sticky) ==
  LET len == BBitLen(n)
  IN  IF len <= Precision THEN [m |-> n, e |-> e, err |-> FALSE]
      ELSE LET drop  == len - Precision
               up    == BShr(n, drop - 1)
               half  == BIsOdd(up.q)
               keep  == BShr(up.q, 1).q
               rest  == up.sticky \/ sticky
               m     == IF half /\ (rest \/ BIsOdd(keep)) THEN BAdd(keep, <<1>>) ELSE keep
           IN  [m |-> m, e |-> e + drop, err |-> FALSE]

\* the float a raising operation leaves nothing of
FErr == [m |-> <<>>, e |-> 0, err |-> TRUE]

\* float(k) for an int 0 <= k < 2^31
FFromInt(k) == [m |-> BFromInt(k), e |-> 0, err |-> FALSE]

\* a / b for ints a >= 0, 0 <= b <= 2^15: ZeroDivisionError when b = 0
TrueDiv(a, b) ==
  IF b = 0 THEN FErr
  ELSE LET d == BDivSmall(BShl(BFromInt(a), DivShift), b)
       IN  FRound(d.q, 0 - DivShift, d.r # 0)

\* x * k for a float x and an int 0 <= k <= 2^15
FMulInt(x, k) == IF x.err THEN FErr ELSE FRound(BMulSmall(x.m, k), x.e, FALSE)

\* x / n for a float x and an int 0 <= n <= 2^15
FDivInt(x, n) ==
  IF x.err \/ n = 0 THEN FErr
  ELSE LET d == BDivSmall(BShl(x.m, DivShift), n)
       IN  FRound(d.q, x.e - DivShift, d.r # 0)

\* x + y
FAdd(x, y) ==
  IF x.err \/ y.err THEN FErr
  ELSE LET e == IF x.e < y.e THEN x.e ELSE y.e
       IN  FRound(BAdd(BShl(x.m, x.e - e), BShl(y.m, y.e - e)), e, FALSE)

\* the int value int(x) truncates to, for a float x >= 0
FFloor(x) == IF x.e >= 0 THEN BToInt(BShl(x.m, x.e)) ELSE BToInt(BShr(x.m, 0 - x.e).q)

\* a decimal literal n/100 such as 0.40
FLiteral(hundredths) == TrueDiv(hundredths, 100)


(***************************************************************************)
(* Python built-ins used by the scorer                                     *)
(***************************************************************************)
Min(a, b) == IF a < b THEN a ELSE b

Max(a, b) == IF a > b THEN a ELSE b

\* seq[:n]
Take(seq, n) == SubSeq(seq, 1, Min(n, Len(seq)))

\* set(seq)
ToSet(seq) == {seq[i] : i \in 1..Len(seq)}

\* the value int() gives for a float; a raised ZeroDivisionError propagates
\* as ZeroDivisionError, which is no score (every score is >= 0)
ZeroDivisionError == 0 - 1

IntOf(x) == IF x.err THEN ZeroDivisionError ELSE FFloor(x)

\* min(100, x) for a float x
FMin100(x) == IF x.err THEN FErr ELSE IF FFloor(x) >= 100 THEN FFromInt(100) ELSE x

\* collections.Counter(seq): the distinct elements in order of first
\* occurrence (dict insertion order) and the count of each
Counter(seq) ==
  LET first == {i \in 1..Len(seq) : \A j \in 1..(i - 1) : seq[j] # seq[i]}
      rank  == [i \in first |-> Cardinality({j \in first : j < i})]
      keys  == [r \in 1..Cardinality(first) |-> seq[CHOOSE i \in first : rank[i] = r - 1]]
  IN  [keys  |-> keys,
       count |-> [r \in 1..Len(keys) |->
                    Cardinality({i \in 1..Len(seq) : seq[i] = keys[r]})]]

\* fault injection: equal counts come out in reverse insertion order
MostCommonReversedTies(counter, n) ==
  LET d     == Len(counter.keys)
      ahead == [i \in 1..d |->
                  Cardinality({j \in 1..d :
                     \/ counter.count[j] > counter.count[i]
                     \/ counter.count[j] = counter.count[i] /\ j > i})]
  IN  [r \in 1..Min(n, d) |-> counter.keys[CHOOSE i \in 1..d : ahead[i] = r - 1]]

\* [k for k, v in counter.most_common(n)]: heapq.nlargest on the counts, which
\* orders as sorted(items, key=count, reverse=True)[:n] does: by descending
\* count, equal counts in insertion order
most_common(counter, n) ==
  LET d     == Len(counter.keys)
      ahead == [i \in 1..d |->
                  Cardinality({j \in 1..d :
                     \/ counter.count[j] > counter.count[i]
                     \/ counter.count[j] = counter.count[i] /\ j < i})]
  IN  [r \in 1..Min(n, d) |-> counter.keys[CHOOSE i \in 1..d : ahead[i] = r - 1]]

(***************************************************************************)
(* EnhancedATSScorer                                                       *)
(***************************************************************************)
stop_words ==
  {"the", "a", "an", "and", "or", "but", "in", "on", "at", "to", "for",
   "of", "with", "by", "from", "as", "is", "was", "are", "were", "been",
   "be", "have", "has", "had", "do", "does", "did", "will", "would",
   "could", "should", "may", "might", "must", "can", "this", "that"}

\* fault injection: tokens of three characters are dropped too (len(w) > 3)
KeepWordOffByOne(w) == w \notin stop_words /\ Len(w) > 3

\* w not in stop_words and len(w) > 2
KeepWord(w) == w \notin stop_words /\ Len(w) > 2

extract_keywords(text) == SelectSeq(FindAll(Lower(text)), KeepWord)

\* most_common(30)
IMPORTANT_KEYWORDS == 30

\* fault injection: the missing keywords are looked for among all important
\* keywords, not the first 15
MissingScanAll == IMPORTANT_KEYWORDS

\* important_keywords[:15]
MISSING_SCAN == 15

\* missing[:10]
MISSING_RETURNED == 10

important_keywords(job_description) ==
  most_common(Counter(extract_keywords(job_description)), IMPORTANT_KEYWORDS)

Descriptions(experience) ==
  [i \in 1..Len(experience) |-> Join(" ", experience[i].description)]

\* fault injection: the haystack also holds the role and company of the entries
ResumeTextWithRoles(resume_data) ==
  Lower(Join(" ", << resume_data.additionalInfo,
                     Join(" ", resume_data.skills.languages),
                     Join(" ", resume_data.skills.databases),
                     Join(" ", resume_data.skills.cloud),
                     Join(" ", resume_data.skills.tools),
                     Join(" ", Descriptions(resume_data.experience)),
                     Join(" ", [i \in 1..Len(resume_data.experience) |->
                                  resume_data.experience[i].role \o " " \o
                                  resume_data.experience[i].company]) >>))

resume_text(resume_data) ==
  Lower(Join(" ", << resume_data.additionalInfo,
                     Join(" ", resume_data.skills.languages),
                     Join(" ", resume_data.skills.databases),
                     Join(" ", resume_data.skills.cloud),
                     Join(" ", resume_data.skills.tools),
                     Join(" ", Descriptions(resume_data.experience)) >>))

\* fault injection: the membership test is inverted (kw not in resume_text)
KeywordFoundInverted(haystack, kw) == ~Contains(haystack, kw)

\* fault injection: a keyword is found only as a whole word of the haystack
KeywordFoundAsWord(haystack, kw) ==
  Contains(" " \o haystack \o " ", " " \o kw \o " ")

\* whether a keyword counts as found in the haystack: kw in resume_text
KeywordFound(haystack, kw) == Contains(haystack, kw)

\* fault injection: the division is not guarded against an empty keyword list
MatchPercentageUnguarded(matched, total) ==
  IntOf(FMulInt(TrueDiv(matched, total), 100))

\* fault injection: int() is applied to the ratio, not to the percentage
MatchPercentageMisplaced(matched, total) ==
  IF total # 0 THEN IntOf(TrueDiv(matched, total)) * 100 ELSE 0

\* fault injection: the ratio is rounded up to one decimal before it is scaled
MatchPercentageCeilTenths(matched, total) ==
  IF total # 0 THEN ((matched * 10 + total - 1) \div total) * 10 ELSE 0

\* int((matched / len(important_keywords)) * 100) if important_keywords else 0
MatchPercentage(matched, total) ==
  IF total # 0 THEN IntOf(FMulInt(TrueDiv(matched, total), 100)) ELSE 0

calculate_keyword_match(resume_data, job_description) ==
  LET important == important_keywords(job_description)
      haystack  == resume_text(resume_data)
      Absent(kw) == ~KeywordFound(haystack, kw)
      matched   == Cardinality({i \in 1..Len(important) : KeywordFound(haystack, important[i])})
      missing   == SelectSeq(Take(important, MISSING_SCAN), Absent)
  IN  [match_percentage |-> MatchPercentage(matched, Len(important)),
       missing          |-> Take(missing, MISSING_RETURNED)]

\* a str or list field is falsy when empty
Truthy(field) == Len(field) > 0

\* fault injection: a missing phone costs 15, as a missing email does
FormattingScorePhone15(resume_data) ==
  100
  - (IF ~Truthy(resume_data.personalInfo.email) THEN 15 ELSE 0)
  - (IF ~Truthy(resume_data.personalInfo.phone) THEN 15 ELSE 0)
  - (IF ~Truthy(resume_data.experience) THEN 30 ELSE 0)
  - (IF ~Truthy(resume_data.skills.languages) /\ ~Truthy(resume_data.skills.tools)
     THEN 20 ELSE 0)
  - (IF ~Truthy(resume_data.education) THEN 15 ELSE 0)
  + (IF Truthy(resume_data.personalInfo.linkedin) THEN 5 ELSE 0)
  + (IF Truthy(resume_data.projects) THEN 5 ELSE 0)

FormattingScore(resume_data) ==
  100
  - (IF ~Truthy(resume_data.personalInfo.email) THEN 15 ELSE 0)
  - (IF ~Truthy(resume_data.personalInfo.phone) THEN 10 ELSE 0)
  - (IF ~Truthy(resume_data.experience) THEN 30 ELSE 0)
  - (IF ~Truthy(resume_data.skills.languages) /\ ~Truthy(resume_data.skills.tools)
     THEN 20 ELSE 0)
  - (IF ~Truthy(resume_data.education) THEN 15 ELSE 0)
  + (IF Truthy(resume_data.personalInfo.linkedin) THEN 5 ELSE 0)
  + (IF Truthy(resume_data.projects) THEN 5 ELSE 0)

\* fault injection: the score is returned unclamped
ClampNone(score) == score

\* fault injection: only the lower clamp is applied
ClampLowerOnly(score) == Max(0, score)

\* max(0, min(100, score))
Clamp(score) == Max(0, Min(100, score))

score_formatting(resume_data) == Clamp(FormattingScore(resume_data))

\* min(100, (overlap / max(len(job_keywords), 1)) * 100) of one entry
EntryRelevance(job_keywords, exp) ==
  LET exp_keywords == ToSet(extract_keywords(Lower(Join(" ", exp.description))))
      overlap      == Cardinality(job_keywords \cap exp_keywords)
  IN  FMin100(FMulInt(TrueDiv(overlap, Max(Cardinality(job_keywords), 1)), 100))

\* total_relevance after the first n entries (total_relevance += relevance)
RECURSIVE TotalRelevance(_, _, _)
TotalRelevance(job_keywords, experience, n) ==
  IF n = 0 THEN FFromInt(0)
  ELSE FAdd(TotalRelevance(job_keywords, experience, n - 1),
            EntryRelevance(job_keywords, experience[n]))

\* int(total_relevance / len(resume_data.experience))
AverageRelevance(total, entries) == IntOf(FDivInt(total, entries))

score_experience_relevance(resume_data, job_description) ==
  IF ~Truthy(resume_data.experience) THEN 0
  ELSE LET job_keywords == ToSet(extract_keywords(job_description))
           n            == Len(resume_data.experience)
       IN  AverageRelevance(TotalRelevance(job_keywords, resume_data.experience, n), n)

all_skills(resume_data) ==
  resume_data.skills.languages \o resume_data.skills.databases \o
  resume_data.skills.cloud \o resume_data.skills.tools

\* skill.lower() in job_desc_lower
SkillMatches(skill, job_desc_lower) == Contains(job_desc_lower, Lower(skill))

\* int((matched_skills / len(all_skills)) * 100) if all_skills else 0
AlignmentScore(matched_skills, total) ==
  IF total # 0 THEN IntOf(FMulInt(TrueDiv(matched_skills, total), 100)) ELSE 0

score_skills_alignment(resume_data, job_description) ==
  LET skills         == all_skills(resume_data)
      job_desc_lower == Lower(job_description)
      matched_skills == Cardinality({i \in 1..Len(skills) :
                                       SkillMatches(skills[i], job_desc_lower)})
      alignment      == AlignmentScore(matched_skills, Len(skills))
  IN  IF ~Truthy(skills) THEN 0
      ELSE IF alignment = ZeroDivisionError THEN ZeroDivisionError
      ELSE Min(100, alignment)


\* fault injection: only the bullets of the first entry are searched for a digit
HasNumbersFirstEntry(experience) ==
  /\ Len(experience) > 0
  /\ \E b \in 1..Len(experience[1].description) : HasDigit(experience[1].description[b])

HasNumbers(experience) ==
  \E i \in 1..Len(experience) :
     \E b \in 1..Len(experience[i].description) : HasDigit(experience[i].description[b])

identify_strengths(resume_data, breakdown) ==
  (IF breakdown.keyword_match >= 70 THEN <<"Strong keyword optimization">> ELSE <<>>) \o
  (IF breakdown.formatting >= 85 THEN <<"Well-structured and complete resume">> ELSE <<>>) \o
  (IF breakdown.experience_relevance >= 70
   THEN <<"Highly relevant work experience">> ELSE <<>>) \o
  (IF breakdown.skills_alignment >= 70
   THEN <<"Skills strongly aligned with job requirements">> ELSE <<>>) \o
  (IF HasNumbers(resume_data.experience)
   THEN <<"Good use of quantified achievements">> ELSE <<>>)

\* fault injection: the keyword suggestion embeds all missing keywords
GenerateImprovementsAllMissing(breakdown, missing_keywords) ==
  LET improvements ==
        (IF breakdown.keyword_match < 60
         THEN <<"Add key terms: " \o Join(", ", missing_keywords)>> ELSE <<>>) \o
        (IF breakdown.formatting < 70
         THEN <<"Ensure all contact information is complete">> ELSE <<>>) \o
        (IF breakdown.experience_relevance < 60
         THEN <<"Rewrite experience bullets to emphasize relevant skills">> ELSE <<>>) \o
        (IF breakdown.skills_alignment < 60
         THEN <<"Add more job-relevant skills to your skills section">> ELSE <<>>)
  IN  IF Len(improvements) = 0
      THEN <<"Resume is well-optimized. Consider minor keyword enhancements.">>
      ELSE improvements

generate_improvements(breakdown, missing_keywords) ==
  LET improvements ==
        (IF breakdown.keyword_match < 60
         THEN <<"Add key terms: " \o Join(", ", Take(missing_keywords, 5))>> ELSE <<>>) \o
        (IF breakdown.formatting < 70
         THEN <<"Ensure all contact information is complete">> ELSE <<>>) \o
        (IF breakdown.experience_relevance < 60
         THEN <<"Rewrite experience bullets to emphasize relevant skills">> ELSE <<>>) \o
        (IF breakdown.skills_alignment < 60
         THEN <<"Add more job-relevant skills to your skills section">> ELSE <<>>)
  IN  IF Len(improvements) = 0
      THEN <<"Resume is well-optimized. Consider minor keyword enhancements.">>
      ELSE improvements

\* the weights 0.40, 0.15, 0.25, 0.20, in hundredths
KEYWORD_WEIGHT == 40

FORMATTING_WEIGHT == 15

EXPERIENCE_WEIGHT == 25

SKILLS_WEIGHT == 20

\* fault injection: the weighted sum is rounded to nearest, not truncated
OverallScoreRounded(keyword_score, formatting_score, experience_score, skills_score) ==
  IntOf(FAdd(FAdd(FAdd(FAdd(FMulInt(FLiteral(KEYWORD_WEIGHT), keyword_score),
                            FMulInt(FLiteral(FORMATTING_WEIGHT), formatting_score)),
                       FMulInt(FLiteral(EXPERIENCE_WEIGHT), experience_score)),
                  FMulInt(FLiteral(SKILLS_WEIGHT), skills_score)),
             FLiteral(50)))

\* int(keyword_score * 0.40 + formatting_score * 0.15 +
\*     experience_score * 0.25 + skills_score * 0.20), added left to right
OverallScore(keyword_score, formatting_score, experience_score, skills_score) ==
  IntOf(FAdd(FAdd(FAdd(FMulInt(FLiteral(KEYWORD_WEIGHT), keyword_score),
                       FMulInt(FLiteral(FORMATTING_WEIGHT), formatting_score)),
                  FMulInt(FLiteral(EXPERIENCE_WEIGHT), experience_score)),
             FMulInt(FLiteral(SKILLS_WEIGHT), skills_score)))

\* fault injection: the middle tier starts at 70
TierMessageGoodFrom70(overall_score) ==
  IF overall_score >= 80 THEN "Excellent ATS compatibility!"
  ELSE IF overall_score >= 70 THEN "Good ATS compatibility with room for improvement."
  ELSE "Needs optimization for better ATS compatibility."

TierMessage(overall_score) ==
  IF overall_score >= 80 THEN "Excellent ATS compatibility!"
  ELSE IF overall_score >= 60 THEN "Good ATS compatibility with room for improvement."
  ELSE "Needs optimization for better ATS compatibility."

\* a report with nothing in it
EmptyReport ==
  [raised           |-> FALSE,
   score            |-> 0,
   breakdown        |-> [keyword_match |-> 0, formatting |-> 0,
                         experience_relevance |-> 0, skills_alignment |-> 0],
   missing_keywords |-> <<>>,
   strengths        |-> <<>>,
   improvements     |-> <<>>,
   feedback         |-> ""]

\* what calculate_comprehensive_score leaves when an exception escapes it
RaisedReport == [EmptyReport EXCEPT !.raised = TRUE]

\* the four sub-scores and the missing keywords, as calculate_comprehensive_score
\* holds them in its local variables
SubScores(resume_data, job_description) ==
  LET keyword == calculate_keyword_match(resume_data, job_description)
  IN  [keyword_score    |-> keyword.match_percentage,
       missing_keywords |-> keyword.missing,
       formatting_score |-> score_formatting(resume_data),
       experience_score |-> score_experience_relevance(resume_data, job_description),
       skills_score     |-> score_skills_alignment(resume_data, job_description)]

\* the report calculate_comprehensive_score builds from its local variables
BuildReport(resume_data, local) ==
  LET breakdown     == [keyword_match        |-> local.keyword_score,
                        formatting           |-> local.formatting_score,
                        experience_relevance |-> local.experience_score,
                        skills_alignment     |-> local.skills_score]
      overall_score == OverallScore(local.keyword_score, local.formatting_score,
                                    local.experience_score, local.skills_score)
      strengths     == identify_strengths(resume_data, breakdown)
      improvements  == generate_improvements(breakdown, local.missing_keywords)
      feedback      == Join(" ", <<TierMessage(overall_score)>>) \o " " \o
                       Join(" ", Take(improvements, 2))
  IN  IF ZeroDivisionError \in
           {local.keyword_score, local.experience_score, local.skills_score}
      THEN RaisedReport
      ELSE [raised           |-> FALSE,
            score            |-> overall_score,
            breakdown        |-> breakdown,
            missing_keywords |-> Take(local.missing_keywords, 10),
            strengths        |-> strengths,
            improvements     |-> improvements,
            feedback         |-> feedback]

\* the sub-scores are computed once, then the report is built from them
calculate_comprehensive_score(resume_data, job_description) ==
  CHOOSE report \in {BuildReport(resume_data, local) :
                       local \in {SubScores(resume_data, job_description)}} : TRUE

(***************************************************************************)
(* The requests the model draws from: TailorRequest(profileData,           *)
(* jobDescription).  Each family varies the fields one scorer reads and    *)
(* keeps the others at those of BaseResume.                                *)
(***************************************************************************)
\* most distinct keywords of a generated job description
MaxJobKeywords == 32

\* most experience entries of a generated resume
MaxEntries == 2

\* most distinct keywords of the job descriptions the experience family uses
MaxOverlapKeywords == 4

\* most copies of one skill in a generated skill list
MaxSkillCopies == 29

\* the i-th word of the generated vocabulary: kab, kac, ...
Word(i) == "k" \o CharAt(LowerLetters, 1 + (i \div 26)) \o CharAt(LowerLetters, 1 + (i % 26))

\* the words Word(i), i in idx, in ascending order and joined by single spaces
WordsText(idx) ==
  LET rank == [i \in idx |-> Cardinality({j \in idx : j < i})]
      nth  == [r \in 1..Cardinality(idx) |-> CHOOSE i \in idx : rank[i] = r - 1]
  IN  Join(" ", [r \in 1..Cardinality(idx) |-> Word(nth[r])])

\* how often word i occurs in a generated job description
Occurrences(shape, i) == IF shape = "flat" THEN 1 ELSE 1 + (i % 3)

\* a job description of d distinct keywords: every word once, then again
\* those that occur twice, then again those that occur three times
JobText(d, shape) ==
  LET AtLeast(n) == {i \in 1..d : Occurrences(shape, i) >= n}
  IN  IF d = 0 THEN ""
      ELSE IF shape = "flat" THEN WordsText(1..d)
      ELSE Join(", ", <<WordsText(AtLeast(1)), WordsText(AtLeast(2)), WordsText(AtLeast(3))>>)

Entry(bullets) == [company |-> "Acme", role |-> "Engineer", description |-> bullets]

BaseResume ==
  [personalInfo   |-> [email |-> "ada@example.org", phone |-> "555 0100", linkedin |-> ""],
   additionalInfo |-> "Backend engineer",
   skills         |-> [languages |-> <<"Python">>, databases |-> <<>>,
                       cloud |-> <<"AWS">>, tools |-> <<>>],
   experience     |-> <<Entry(<<"Built scalable API using Docker and Python">>)>>,
   education      |-> <<"BSc Computer Science">>,
   projects       |-> <<>>]

SpecJob ==
  "Looking for a Python developer with AWS and Docker experience, strong API design skills"

Request(resume, job) == [profileData |-> resume, jobDescription |-> job]

\* a resume that names, of the d keywords of the job description, the first h
\* (every keyword once) or every second one of the first h (mixed frequencies)
KeywordRequests ==
  {Request([BaseResume EXCEPT
              !.additionalInfo = WordsText({i \in 1..h : i % stride = 0}),
              !.skills.languages = <<>>, !.skills.cloud = <<>>,
              !.experience = <<>>],
           JobText(d, shape)) :
     <<d, h, stride, shape>> \in
       {x \in (0..MaxJobKeywords) \X (0..MaxJobKeywords) \X {1, 2} \X {"flat", "mixed"} :
          x[2] <= x[1] /\ (x[3] = 1 <=> x[4] = "flat")}}

\* every combination of present and absent sections
FormattingRequests ==
  {Request([personalInfo   |-> [email |-> b[1], phone |-> b[2], linkedin |-> b[3]],
            additionalInfo |-> "Backend engineer",
            skills         |-> [languages |-> b[4], databases |-> <<"PostgreSQL">>,
                                cloud |-> <<>>, tools |-> b[5]],
            experience     |-> b[6],
            education      |-> b[7],
            projects       |-> b[8]],
           SpecJob) :
     b \in {"", "ada@example.org"} \X {"", "555 0100"} \X {"", "linkedin.com/in/ada"} \X
           {<<>>, <<"Python">>} \X {<<>>, <<"Docker", "Git">>} \X
           {<<>>, <<Entry(<<"Built scalable API using Docker and Python">>)>>} \X
           {<<>>, <<"BSc Computer Science">>} \X {<<>>, <<"Scheduler">>}}

\* an entry whose bullets name the first o job keywords
OverlapEntry(o) ==
  Entry(IF o = 0 THEN <<"Led a team of 4">>
        ELSE <<"Built " \o WordsText(1..o)>>)

EntryLists ==
  UNION {[1..n -> 0..MaxOverlapKeywords] : n \in 0..MaxEntries}

ExperienceRequests ==
  {Request([BaseResume EXCEPT
              !.additionalInfo = "",
              !.experience = [i \in 1..Len(os) |-> OverlapEntry(os[i])]],
           JobText(d, "flat")) :
     <<d, os>> \in {x \in (0..MaxOverlapKeywords) \X EntryLists :
                      \A i \in 1..Len(x[2]) : x[2][i] <= x[1]}}

Copies(skill, n) == [i \in 1..n |-> skill]

\* a copies of a skill the job names and b copies of one it does not
SkillRequests ==
  {Request([BaseResume EXCEPT
              !.skills = [languages |-> Copies("Python", a), databases |-> <<>>,
                          cloud |-> <<>>, tools |-> Copies("Fortran", b)]],
           SpecJob) :
     <<a, b>> \in (0..MaxSkillCopies) \X (0..MaxSkillCopies)}

\* the breakdown (60, 80, 50, 70): 3 of 5 keywords, no phone and no education
\* but a link, entries naming 2 and 3 of 5 keywords, 7 of 10 skills
WeightedExample ==
  Request([personalInfo   |-> [email |-> "ada@example.org", phone |-> "",
                               linkedin |-> "linkedin.com/in/ada"],
           additionalInfo |-> "",
           skills         |-> [languages |-> Copies("kab", 4), databases |-> Copies("KAC", 3),
                               cloud |-> <<"Fortran">>, tools |-> <<"Cobol", "Ada">>],
           experience     |-> <<OverlapEntry(2), OverlapEntry(3)>>,
           education      |-> <<>>,
           projects       |-> <<>>],
          JobText(5, "flat"))

\* no email, phone, link, skills, experience, education or projects
EmptyResume ==
  [personalInfo   |-> [email |-> "", phone |-> "", linkedin |-> ""],
   additionalInfo |-> "",
   skills         |-> [languages |-> <<>>, databases |-> <<>>, cloud |-> <<>>, tools |-> <<>>],
   experience     |-> <<>>,
   education      |-> <<>>,
   projects       |-> <<>>]

ExampleRequests ==
  {Request(BaseResume, SpecJob),
   Request(EmptyResume, SpecJob),
   Request(EmptyResume, ""),
   Request(BaseResume, ""),
   Request(BaseResume, "We are to be or do as is"),
   Request([BaseResume EXCEPT !.skills.languages = <<"JavaScript">>],
           "Java and C++ developer, Node.js, CI/CD, REST/API"),
   Request([BaseResume EXCEPT !.experience = <<>>, !.skills.languages = <<>>,
                              !.skills.cloud = <<>>], ""),
   WeightedExample}

\* the words Word(i), i in idx, in descending order and joined by single spaces
WordsTextDescending(idx) ==
  LET rank == [i \in idx |-> Cardinality({j \in idx : j > i})]
      nth  == [r \in 1..Cardinality(idx) |-> CHOOSE i \in idx : rank[i] = r - 1]
  IN  Join(" ", [r \in 1..Cardinality(idx) |-> Word(nth[r])])

\* a job description whose d keywords first occur in reverse alphabetical
\* order; those of even index occur twice
TieJobText(d) ==
  IF d = 0 THEN ""
  ELSE Join(", ", <<WordsTextDescending(1..d),
                    WordsTextDescending({i \in 1..d : i % 2 = 0})>>)

TieRequests ==
  {Request([BaseResume EXCEPT !.additionalInfo = WordsText({i \in 1..d : i % 3 = 0})],
           TieJobText(d)) : d \in 0..MaxJobKeywords}

\* job keywords that occur in the resume only inside longer words, or only in
\* fields the keyword matcher does not read
FieldRequests ==
  {Request([BaseResume EXCEPT !.additionalInfo = "TypeScript and PostgreSQL developer"],
           "Script, SQL, Java, Post or Type: developers wanted"),
   Request([BaseResume EXCEPT !.projects = <<"Scheduler">>,
                              !.personalInfo.linkedin = "linkedin.com/in/ada"],
           "Acme seeks an engineer, BSc in computer science, for its Scheduler; write to ada@example.org"),
   Request([BaseResume EXCEPT !.experience = <<Entry(<<"Built docker images">>),
                                               Entry(<<>>),
                                               Entry(<<"Led", "Java migration">>)>>,
                              !.skills.tools = <<"Git", "Make">>,
                              !.skills.databases = <<"Redis">>],
           "Acme engineer: java, redis, git, make, images, aws, python, backend, led")}

Requests ==
  KeywordRequests \cup FormattingRequests \cup ExperienceRequests \cup
  SkillRequests \cup ExampleRequests

(***************************************************************************)
(* The request handler calculate_ats_score (POST /ai/ats-score)            *)
(***************************************************************************)
VARIABLES
  request,    \* the TailorRequest being handled
  pc,         \* "received" until the handler has answered, then "responded"
  response,   \* the status code and the ATSScoreResponse of the answer
  keywords,   \* job_keywords, once extract_keywords has returned them
  frames,     \* the local variables of the invocations in progress
  ai_cache,   \* the global SimpleCache: its _cache and _timestamps dicts
  now,        \* what datetime.now() returns, in hours
  history     \* for each argument tuple its last set and the runs of the wrapped function

vars == <<request, pc, response, keywords, frames, ai_cache, now, history>>

\* SimpleCache.__init__: both dicts empty
NoCache == [_cache |-> <<>>, _timestamps |-> <<>>]

NoHistory == <<>>

NoResponse == [status_code |-> 0, result |-> EmptyReport]

Init ==
  /\ request \in Requests
  /\ pc = "received"
  /\ response = NoResponse
  /\ keywords = <<>>
  /\ frames = <<>>
  /\ ai_cache = NoCache
  /\ now = 0
  /\ history = NoHistory

\* the handler: the scorer's result as the response, or 500 when it raised
calculate_ats_score ==
  /\ pc = "received"
  /\ \E result \in {calculate_comprehensive_score(request.profileData,
                                                    request.jobDescription)} :
        response' = [status_code |-> IF result.raised THEN 500 ELSE 200,
                     result      |-> result]
  /\ pc' = "responded"
  /\ UNCHANGED <<request, keywords, frames>>
  /\ UNCHANGED <<ai_cache, now, history>>

Next == calculate_ats_score

Spec == Init /\ [][Next]_vars

(***************************************************************************)
(* A user who adds job keywords to additionalInfo and asks for the score   *)
(* again                                                                   *)
(***************************************************************************)
\* the longest additionalInfo a keyword is still added to
MaxInfoLen == 8

\* additionalInfo with kw added at its end or start, after a space or directly
AddKeyword(info, kw, place) ==
  CASE place = "end"    -> info \o " " \o kw
    [] place = "start"  -> kw \o " " \o info
    [] place = "joined" -> info \o kw

Places == {"end", "start", "joined"}

\* resumes that name no job keyword, or the first one among their skills
EditRequests ==
  {Request([BaseResume EXCEPT !.additionalInfo = "", !.skills.languages = languages],
           JobText(d, "mixed")) :
     <<d, languages>> \in (1..MaxOverlapKeywords) \X {<<>>, <<Word(1)>>}}

EditInit ==
  /\ request \in EditRequests
  /\ pc = "received"
  /\ response = NoResponse
  /\ keywords = <<>>
  /\ frames = <<>>
  /\ ai_cache = NoCache
  /\ now = 0
  /\ history = NoHistory

\* the user adds one keyword of the job description to additionalInfo
add_keyword ==
  /\ pc = "responded"
  /\ Len(request.profileData.additionalInfo) < MaxInfoLen
  /\ \E kw \in ToSet(extract_keywords(request.jobDescription)), place \in Places :
        request' = [request EXCEPT !.profileData.additionalInfo =
                                     AddKeyword(@, kw, place)]
  /\ pc' = "received"
  /\ UNCHANGED <<response, keywords, frames>>
  /\ UNCHANGED <<ai_cache, now, history>>

EditNext == calculate_ats_score \/ add_keyword

EditSpec == EditInit /\ [][EditNext]_vars

(***************************************************************************)
(* Concurrent request handlers, each running calculate_comprehensive_score *)
(* one statement at a time; request, pc and response are then functions of *)
(* the handler                                                             *)
(***************************************************************************)
\* most request handlers running at once
MaxHandlers == 2

Handlers == 1..MaxHandlers

\* fault injection: the concatenation extends its left operand (a += b)
ListAddInPlace(a, b) == [result |-> a \o b, left |-> a \o b]

\* a + b on lists: the result is a new list and the left operand is kept
ListAdd(a, b) == [result |-> a \o b, left |-> a]

\* fault injection: the local variables live in one place all invocations share
SharedFrame(h) == 1

\* the frame that holds the local variables of handler h's invocation: its own
Frame(h) == h

\* local variables not yet assigned
NoLocals ==
  [keyword_score |-> 0, missing_keywords |-> <<>>, formatting_score |-> 0,
   experience_score |-> 0, skills_score |-> 0]

ConcurrentRequests == {Request(BaseResume, SpecJob), WeightedExample}

ConcurrentInit ==
  /\ request \in [Handlers -> ConcurrentRequests]
  /\ pc = [h \in Handlers |-> "received"]
  /\ response = [h \in Handlers |-> NoResponse]
  /\ keywords = <<>>
  /\ frames = [h \in Handlers |-> NoLocals]
  /\ ai_cache = NoCache
  /\ now = 0
  /\ history = NoHistory

\* keyword_score, missing_keywords = calculate_keyword_match(...)
call_keyword_match(h) ==
  /\ pc[h] = "received"
  /\ \E r \in {calculate_keyword_match(request[h].profileData, request[h].jobDescription)} :
        frames' = [frames EXCEPT ![Frame(h)].keyword_score = r.match_percentage,
                                 ![Frame(h)].missing_keywords = r.missing]
  /\ pc' = [pc EXCEPT ![h] = "keyword_scored"]
  /\ UNCHANGED <<request, response, keywords>>
  /\ UNCHANGED <<ai_cache, now, history>>

\* formatting_score = score_formatting(resume_data)
call_formatting(h) ==
  /\ pc[h] = "keyword_scored"
  /\ \E r \in {score_formatting(request[h].profileData)} :
        frames' = [frames EXCEPT ![Frame(h)].formatting_score = r]
  /\ pc' = [pc EXCEPT ![h] = "formatting_scored"]
  /\ UNCHANGED <<request, response, keywords>>
  /\ UNCHANGED <<ai_cache, now, history>>

\* experience_score = score_experience_relevance(...)
call_experience(h) ==
  /\ pc[h] = "formatting_scored"
  /\ \E r \in {score_experience_relevance(request[h].profileData, request[h].jobDescription)} :
        frames' = [frames EXCEPT ![Frame(h)].experience_score = r]
  /\ pc' = [pc EXCEPT ![h] = "experience_scored"]
  /\ UNCHANGED <<request, response, keywords>>
  /\ UNCHANGED <<ai_cache, now, history>>

\* skills_score = score_skills_alignment(...); its all_skills is built with +
\* from resume_data.skills.languages, which is what + leaves of it
call_skills(h) ==
  /\ pc[h] = "experience_scored"
  /\ \E r \in {score_skills_alignment(request[h].profileData, request[h].jobDescription)} :
        frames' = [frames EXCEPT ![Frame(h)].skills_score = r]
  /\ request' = [request EXCEPT ![h].profileData.skills.languages =
                                  ListAdd(@, request[h].profileData.skills.databases).left]
  /\ pc' = [pc EXCEPT ![h] = "skills_scored"]
  /\ UNCHANGED <<response, keywords>>
  /\ UNCHANGED <<ai_cache, now, history>>

\* the breakdown, the overall score and the feedback, from the local variables
build_report(h) ==
  /\ pc[h] = "skills_scored"
  /\ \E result \in {BuildReport(request[h].profileData, frames[Frame(h)])} :
        response' = [response EXCEPT
                       ![h] = [status_code |-> IF result.raised THEN 500 ELSE 200,
                               result      |-> result]]
  /\ pc' = [pc EXCEPT ![h] = "responded"]
  /\ UNCHANGED <<request, keywords, frames>>
  /\ UNCHANGED <<ai_cache, now, history>>

\* the same request is sent to the handler once more
call_again(h) ==
  /\ pc[h] = "responded"
  /\ pc' = [pc EXCEPT ![h] = "received"]
  /\ response' = [response EXCEPT ![h] = NoResponse]
  /\ UNCHANGED <<request, keywords, frames>>
  /\ UNCHANGED <<ai_cache, now, history>>

ConcurrentNext ==
  \E h \in Handlers :
     \/ call_keyword_match(h)
     \/ call_formatting(h)
     \/ call_experience(h)
     \/ call_skills(h)
     \/ build_report(h)
     \/ call_again(h)

ConcurrentSpec == ConcurrentInit /\ [][ConcurrentNext]_vars

(***************************************************************************)
(* calculate_keyword_match on its own: the first statement of              *)
(* calculate_comprehensive_score, run by one handler                       *)
(***************************************************************************)
MatchRequests == KeywordRequests \cup TieRequests \cup FieldRequests \cup ExampleRequests

MatchInit ==
  /\ request \in [{1} -> MatchRequests]
  /\ pc = [h \in {1} |-> "received"]
  /\ response = [h \in {1} |-> NoResponse]
  /\ keywords = <<>>
  /\ frames = [h \in {1} |-> NoLocals]
  /\ ai_cache = NoCache
  /\ now = 0
  /\ history = NoHistory

MatchNext == call_keyword_match(1)

MatchSpec == MatchInit /\ [][MatchNext]_vars

(***************************************************************************)
(* The AI endpoints and their provider lookup                              *)
(***************************************************************************)
HTTP_400_BAD_REQUEST == 400

HTTP_401_UNAUTHORIZED == 401

HTTP_428_PRECONDITION_REQUIRED == 428

HTTP_500_INTERNAL_SERVER_ERROR == 500

\* a statement that returned, and one that raised: an HTTPException carries its
\* status code, any other exception is answered 500 when it leaves the handler
Returned == [raised |-> FALSE, status_code |-> 200]

HTTPException(status_code) == [raised |-> TRUE, status_code |-> status_code]

OtherException == [raised |-> TRUE, status_code |-> HTTP_500_INTERNAL_SERVER_ERROR]

\* the second statement runs only when the first one returned
Then(first, second) == IF first.raised THEN first ELSE second

\* except Exception as e: raise HTTPException(500, detail=str(e)); HTTPException
\* is an Exception, so this clause catches it too
ExceptException(outcome) ==
  IF outcome.raised THEN HTTPException(HTTP_500_INTERNAL_SERVER_ERROR) ELSE outcome

\* what get_user_settings returns for a user without stored settings
None == "None"

get_ai_service_for_user(user_id, user_config) ==
  IF user_id = "" THEN HTTPException(HTTP_401_UNAUTHORIZED)
  ELSE IF user_config = None THEN HTTPException(HTTP_428_PRECONDITION_REQUIRED)
  ELSE Returned

\* await ai_service.<method>(...): the provider answers or the call raises
AICall(ai_raises) == IF ai_raises THEN OtherException ELSE Returned

\* asyncio.gather(..., return_exceptions=True): failures come back as values
GatherReturnExceptions(ai_raises) == Returned

\* the endpoints whose whole body is try: ... except Exception around the
\* lookup and one provider call
GuardedEndpoints ==
  {"tailor-summary", "tailor-experience", "tailor-skills", "tailor-projects",
   "tailor-education", "ats-score-llm", "generate-cover-letter"}

Endpoints == GuardedEndpoints \cup {"generate-summary", "tailor-resume", "batch-tailor"}

\* a call: the endpoint, the caller, what get_user_settings returns for the
\* caller, the experience field of the body, and whether the provider fails
EndpointRequests ==
  [endpoint    : Endpoints,
   user_id     : {"", "user-1"},
   user_config : {None, "openai"},
   experience  : {"", "Built scalable API"},
   ai_raises   : BOOLEAN]

EndpointInit ==
  /\ request \in EndpointRequests
  /\ pc = "received"
  /\ response = NoResponse
  /\ keywords = <<>>
  /\ frames = <<>>
  /\ ai_cache = NoCache
  /\ now = 0
  /\ history = NoHistory

\* the handler's outcome becomes the HTTP answer
Answer(outcome) ==
  /\ response' = [status_code |-> outcome.status_code, result |-> EmptyReport]
  /\ pc' = "responded"
  /\ UNCHANGED <<request, keywords, frames>>
  /\ UNCHANGED <<ai_cache, now, history>>

\* POST /ai/generate-summary: no try block
generate_summary ==
  /\ pc = "received"
  /\ request.endpoint = "generate-summary"
  /\ Answer(IF request.experience = "" THEN HTTPException(HTTP_400_BAD_REQUEST)
            ELSE Then(get_ai_service_for_user(request.user_id, request.user_config),
                      AICall(request.ai_raises)))

\* POST /ai/tailor-summary and the endpoints of the same shape
guarded_endpoint ==
  /\ pc = "received"
  /\ request.endpoint \in GuardedEndpoints
  /\ Answer(ExceptException(
              Then(get_ai_service_for_user(request.user_id, request.user_config),
                   AICall(request.ai_raises))))

\* POST /ai/tailor-resume
tailor_resume ==
  /\ pc = "received"
  /\ request.endpoint = "tailor-resume"
  /\ Answer(ExceptException(
              Then(get_ai_service_for_user(request.user_id, request.user_config),
                   GatherReturnExceptions(request.ai_raises))))

\* POST /ai/batch-tailor: the lookup is written out inside the try block
batch_tailor_resumes ==
  /\ pc = "received"
  /\ request.endpoint = "batch-tailor"
  /\ Answer(ExceptException(
              Then(IF request.user_config = None
                   THEN HTTPException(HTTP_428_PRECONDITION_REQUIRED) ELSE Returned,
                   GatherReturnExceptions(request.ai_raises))))

EndpointNext ==
  generate_summary \/ guarded_endpoint \/ tailor_resume \/ batch_tailor_resumes

EndpointSpec == EndpointInit /\ [][EndpointNext]_vars

(***************************************************************************)
(* extract_keywords on its own: the first statement of                     *)
(* calculate_keyword_match, applied to job descriptions made of a few      *)
(* pieces written one after the other                                      *)
(***************************************************************************)
\* most pieces of a generated text
MaxPieces == 3

Pieces == {"c++", "node.js", "api", "rest", "/", " ", "The api an API", "an", "C#", "."}

\* the texts of at most n pieces
RECURSIVE TextsOf(_)
TextsOf(n) ==
  IF n = 0 THEN {""}
  ELSE LET shorter == TextsOf(n - 1)
       IN  shorter \cup {t \o p : t \in shorter, p \in Pieces}

ExtractInit ==
  /\ request \in {Request(EmptyResume, t) : t \in TextsOf(MaxPieces)}
  /\ pc = "received"
  /\ response = NoResponse
  /\ keywords = <<>>
  /\ frames = <<>>
  /\ ai_cache = NoCache
  /\ now = 0
  /\ history = NoHistory

\* job_keywords = EnhancedATSScorer.extract_keywords(job_description)
extract_job_keywords ==
  /\ pc = "received"
  /\ keywords' = extract_keywords(request.jobDescription)
  /\ pc' = "extracted"
  /\ UNCHANGED <<request, response, frames>>
  /\ UNCHANGED <<ai_cache, now, history>>

ExtractNext == extract_job_keywords

ExtractSpec == ExtractInit /\ [][ExtractNext]_vars


(***************************************************************************)
(* POST /ai/tailor-resume step by step: the five provider calls handed to  *)
(* asyncio.gather complete in any order                                    *)
(***************************************************************************)
\* the arguments of asyncio.gather, in their order
Sections == <<"summary", "experience", "skills", "projects", "education">>

\* what a provider call returns when it succeeds
TailoredValue(section, profileData) ==
  CASE section = "summary"    -> "Tailored summary"
    [] section = "experience" ->
         [i \in 1..Len(profileData.experience) |->
            [profileData.experience[i] EXCEPT !.description = <<"Tailored bullet">>]]
    [] section = "skills"     -> [profileData.skills EXCEPT !.tools = <<>>]
    [] section = "projects"   ->
         IF profileData.projects = <<>> THEN <<>> ELSE <<"Tailored project">>
    [] section = "education"  -> profileData.education

\* a result of gather that is still awaited, an exception instance, a value
Pending == [done |-> FALSE, raised |-> FALSE, value |-> <<>>]

ExceptionResult == [done |-> TRUE, raised |-> TRUE, value |-> <<>>]

ValueResult(value) == [done |-> TRUE, raised |-> FALSE, value |-> value]

\* fault injection: a failed summary falls back to the original additionalInfo
FallbackOriginalSummary(section, profileData) ==
  IF section = "summary" THEN profileData.additionalInfo ELSE profileData[section]

\* what replaces the result of a failed call
Fallback(section, profileData) ==
  IF section = "summary" THEN "" ELSE profileData[section]

\* if isinstance(tailored_x, Exception): tailored_x = ...
Unpack(section, result, profileData) ==
  IF result.raised THEN Fallback(section, profileData) ELSE result.value

\* s[:100] + "..." if len(s) > 100 else s
Truncate100(text) == IF Len(text) > 100 THEN SubSeq(text, 1, 100) \o "..." ELSE text

\* the ChangeDetail list: the summary when it is not empty, then the entries
\* whose bullets differ from the original ones
TrackChanges(profileData, tailored_summary, tailored_experience) ==
  LET paired  == Min(Len(profileData.experience), Len(tailored_experience))
      changed == SelectSeq([i \in 1..paired |-> i],
                           LAMBDA i : profileData.experience[i].description #
                                      tailored_experience[i].description)
  IN  (IF tailored_summary # ""
       THEN <<[section |-> "Summary", field |-> "summary",
               before  |-> Truncate100(profileData.additionalInfo),
               after   |-> Truncate100(tailored_summary)]>>
       ELSE <<>>) \o
      [k \in 1..Len(changed) |->
         [section |-> "Experience",
          field   |-> profileData.experience[changed[k]].company \o " - " \o
                      profileData.experience[changed[k]].role,
          before  |-> ToString(Len(profileData.experience[changed[k]].description))
                      \o " bullets",
          after   |-> ToString(Len(tailored_experience[changed[k]].description))
                      \o " bullets (tailored)"]]

\* a request, what get_user_settings returns for the caller, and for each
\* provider call whether it raises
TailorRequests ==
  {[profileData |-> r, jobDescription |-> SpecJob, user_config |-> c, raises |-> f] :
     r \in {[BaseResume EXCEPT !.projects = <<"Scheduler">>],
            [BaseResume EXCEPT !.experience = <<Entry(<<"Built docker images">>),
                                                Entry(<<"Tailored bullet">>)>>]},
     c \in {None, "openai"},
     f \in [ToSet(Sections) -> BOOLEAN]}

TailorInit ==
  /\ request \in TailorRequests
  /\ pc = "received"
  /\ response = NoResponse
  /\ keywords = <<>>
  /\ frames = <<>>
  /\ ai_cache = NoCache
  /\ now = 0
  /\ history = NoHistory

\* ai_service = await get_ai_service_for_user(user_id), then the five calls are
\* handed to asyncio.gather; a failed lookup is answered 500
gather_sections ==
  /\ pc = "received"
  /\ IF request.user_config = None
     THEN /\ response' = [status_code |-> HTTP_500_INTERNAL_SERVER_ERROR,
                          result      |-> EmptyReport]
          /\ pc' = "responded"
          /\ UNCHANGED frames
     ELSE /\ frames' = [results   |-> [s \in ToSet(Sections) |-> Pending],
                        completed |-> <<>>]
          /\ pc' = "gathering"
          /\ UNCHANGED response
  /\ UNCHANGED <<request, keywords>>
  /\ UNCHANGED <<ai_cache, now, history>>

\* one of the calls finishes: its value, or with return_exceptions=True its
\* exception, is stored at the position of the call
section_completes(section) ==
  /\ pc = "gathering"
  /\ ~frames.results[section].done
  /\ frames' = [results   |-> [frames.results EXCEPT ![section] =
                                 IF request.raises[section] THEN ExceptionResult
                                 ELSE ValueResult(TailoredValue(section, request.profileData))],
                completed |-> Append(frames.completed, section)]
  /\ UNCHANGED <<request, pc, response, keywords>>
  /\ UNCHANGED <<ai_cache, now, history>>

\* gather has returned: the results are unpacked, the changes tracked, the
\* keywords analysed and the response returned
unpack_results ==
  /\ pc = "gathering"
  /\ \A s \in ToSet(Sections) : frames.results[s].done
  /\ LET tailored == [s \in ToSet(Sections) |->
                        Unpack(s, frames.results[s], request.profileData)]
         keyword  == calculate_keyword_match(request.profileData, request.jobDescription)
     IN  response' =
           [status_code |-> 200,
            result |->
              [tailoredResume |->
                 [personalInfo |-> request.profileData.personalInfo,
                  summary      |-> tailored["summary"],
                  skills       |-> tailored["skills"],
                  experience   |-> tailored["experience"],
                  education    |-> tailored["education"],
                  projects     |-> tailored["projects"]],
               changes |-> TrackChanges(request.profileData, tailored["summary"],
                                        tailored["experience"]),
               keywordAnalysis |->
                 [matched_percentage |-> keyword.match_percentage,
                  missing_keywords   |-> Take(keyword.missing, 5)]]]
  /\ pc' = "responded"
  /\ UNCHANGED <<request, keywords, frames>>
  /\ UNCHANGED <<ai_cache, now, history>>

TailorNext ==
  \/ gather_sections
  \/ \E section \in ToSet(Sections) : section_completes(section)
  \/ unpack_results

TailorSpec == TailorInit /\ [][TailorNext]_vars

(***************************************************************************)
(* POST /ai/batch-tailor step by step: one tailor_for_job task for each of *)
(* the first five job descriptions, completing in any order                *)
(***************************************************************************)
\* most job descriptions of a generated batch request
MaxBatchJobs == 6

\* request.jobDescriptions[:5]
BATCH_LIMIT == 5

LongJob ==
  "Senior backend engineer for a payments platform: Python, PostgreSQL, AWS, Docker, Kubernetes, Terraform and Kafka"

JobTexts == {"Python developer", LongJob}

BatchSections == {"summary", "experience", "skills"}

\* job_desc[:100] + "..."
JobLabel(job_desc) == SubSeq(job_desc, 1, Min(100, Len(job_desc))) \o "..."

\* tailor_for_job: the three calls are gathered with return_exceptions=True, so
\* a call that raises leaves an exception among the results and the except
\* clause of tailor_for_job is not entered
TailorForJob(job_desc, raising, profileData) ==
  [job_description  |-> JobLabel(job_desc),
   summary          |-> IF "summary" \in raising THEN ""
                        ELSE TailoredValue("summary", profileData),
   experience_count |-> IF "experience" \in raising THEN 0
                        ELSE Len(TailoredValue("experience", profileData)),
   status           |-> "success"]

\* a batch request, what get_user_settings returns for the caller, and for
\* each job description the calls that raise for it
BatchRequests ==
  {[profileData |-> BaseResume, jobDescriptions |-> jobs, user_config |-> c, raises |-> f] :
     jobs \in UNION {[1..n -> JobTexts] : n \in 0..MaxBatchJobs},
     c \in {None, "openai"},
     f \in [JobTexts -> {{}, {"summary"}, BatchSections}]}

BatchInit ==
  /\ request \in BatchRequests
  /\ pc = "received"
  /\ response = NoResponse
  /\ keywords = <<>>
  /\ frames = <<>>
  /\ ai_cache = NoCache
  /\ now = 0
  /\ history = NoHistory

\* the settings lookup, then one task for each of the first five descriptions;
\* the 428 of a failed lookup is caught by except Exception and answered 500
gather_jobs ==
  /\ pc = "received"
  /\ IF request.user_config = None
     THEN /\ response' = [status_code |-> HTTP_500_INTERNAL_SERVER_ERROR,
                          result      |-> EmptyReport]
          /\ pc' = "responded"
          /\ UNCHANGED frames
     ELSE /\ frames' = [results |->
                          [i \in 1..Min(BATCH_LIMIT, Len(request.jobDescriptions)) |-> Pending]]
          /\ pc' = "gathering"
          /\ UNCHANGED response
  /\ UNCHANGED <<request, keywords>>
  /\ UNCHANGED <<ai_cache, now, history>>

\* the task of the i-th description returns its result
tailor_for_job(i) ==
  /\ pc = "gathering"
  /\ i \in DOMAIN frames.results
  /\ ~frames.results[i].done
  /\ frames' = [results |-> [frames.results EXCEPT ![i] =
                  ValueResult(TailorForJob(request.jobDescriptions[i],
                                           request.raises[request.jobDescriptions[i]],
                                           request.profileData))]]
  /\ UNCHANGED <<request, pc, response, keywords>>
  /\ UNCHANGED <<ai_cache, now, history>>

\* gather has returned the results in the order of the descriptions
return_batch ==
  /\ pc = "gathering"
  /\ \A i \in DOMAIN frames.results : frames.results[i].done
  /\ LET results == [i \in DOMAIN frames.results |-> frames.results[i].value]
     IN  response' =
           [status_code |-> 200,
            result |-> [total_jobs |-> Len(results),
                        results    |-> results,
                        message    |-> "Processed " \o ToString(Len(results))
                                       \o " job descriptions"]]
  /\ pc' = "responded"
  /\ UNCHANGED <<request, keywords, frames>>
  /\ UNCHANGED <<ai_cache, now, history>>

BatchNext ==
  \/ gather_jobs
  \/ \E i \in 1..BATCH_LIMIT : tailor_for_job(i)
  \/ return_batch

BatchSpec == BatchInit /\ [][BatchNext]_vars

(***************************************************************************)
(* SimpleCache: the in-memory cache of AI responses and its clock          *)
(***************************************************************************)
\* ai_cache = SimpleCache(default_ttl_hours=24)
default_ttl_hours == 24

\* the clock is read every TickHours hours, up to MaxHours
TickHours == 12

MaxHours == 48

\* json.dumps of a str: quotes and backslashes are escaped
JsonString(text) ==
  "\"" \o Join("", [i \in 1..Len(text) |->
                      IF CharAt(text, i) \in {"\"", "\\"}
                      THEN "\\" \o CharAt(text, i) ELSE CharAt(text, i)]) \o "\""

\* json.dumps({"args": args, "kwargs": {}}, sort_keys=True) of str arguments;
\* the md5 digest of it is taken to be free of collisions
_generate_key(args) ==
  "{\"args\": [" \o Join(", ", [i \in 1..Len(args) |-> JsonString(args[i])])
  \o "], \"kwargs\": {}}"

\* fault injection: an entry expires when its age reaches the TTL
IsExpiredAtTtl(cache, key, t) ==
  IF key \notin DOMAIN cache._timestamps THEN TRUE
  ELSE t - cache._timestamps[key] >= default_ttl_hours

_is_expired(cache, key, t) ==
  IF key \notin DOMAIN cache._timestamps THEN TRUE
  ELSE t - cache._timestamps[key] > default_ttl_hours

\* d[key] = value, and del d[key] for the keys of gone
DictSet(d, key, value) ==
  [k \in DOMAIN d \cup {key} |-> IF k = key THEN value ELSE d[k]]

DictDel(d, gone) == [k \in DOMAIN d \ gone |-> d[k]]

CacheGet(cache, args, t) ==
  LET key == _generate_key(args)
  IN  IF key \in DOMAIN cache._cache /\ ~_is_expired(cache, key, t)
      THEN cache._cache[key] ELSE None

CacheSet(cache, value, args, t) ==
  LET key == _generate_key(args)
  IN  [_cache      |-> DictSet(cache._cache, key, value),
       _timestamps |-> DictSet(cache._timestamps, key, t)]

\* fault injection: the expired entries leave _cache but keep their timestamps
ClearExpiredValuesOnly(cache, t) ==
  LET expired_keys == {k \in DOMAIN cache._cache : _is_expired(cache, k, t)}
  IN  [_cache      |-> DictDel(cache._cache, expired_keys),
       _timestamps |-> cache._timestamps]

CacheClearExpired(cache, t) ==
  LET expired_keys == {k \in DOMAIN cache._cache : _is_expired(cache, k, t)}
  IN  [_cache      |-> DictDel(cache._cache, expired_keys),
       _timestamps |-> DictDel(cache._timestamps, expired_keys)]

CacheStats(cache, t) ==
  [total_entries   |-> Cardinality(DOMAIN cache._cache),
   expired_entries |-> Cardinality({k \in DOMAIN cache._cache : _is_expired(cache, k, t)})]

\* the argument tuples and the values of the calls
CacheArgs == {<<"x">>, <<"x", "y">>, <<"x\", \"y">>}

CacheValues == {"v1", "v2"}

\* the last set for given arguments, and whether the entries of the keys in
\* gone have been removed since
RecordSet(h, args, value, t) ==
  DictSet(h, args, [value |-> value, at |-> t, removed |-> FALSE])

RecordRemoved(h, gone) ==
  [args \in DOMAIN h |->
     IF _generate_key(args) \in gone THEN [h[args] EXCEPT !.removed = TRUE] ELSE h[args]]

CacheInit ==
  /\ request = <<>>
  /\ pc = "idle"
  /\ response = [op |-> "none", args |-> <<>>, at |-> 0, returned |-> None]
  /\ keywords = <<>>
  /\ frames = <<>>
  /\ ai_cache = NoCache
  /\ now = 0
  /\ history = NoHistory

get ==
  /\ \E args \in CacheArgs :
        response' = [op |-> "get", args |-> args, at |-> now,
                     returned |-> CacheGet(ai_cache, args, now)]
  /\ UNCHANGED <<request, pc, keywords, frames, ai_cache, now, history>>

set ==
  /\ \E args \in CacheArgs, value \in CacheValues :
        /\ ai_cache' = CacheSet(ai_cache, value, args, now)
        /\ history' = RecordSet(history, args, value, now)
        /\ response' = [op |-> "set", args |-> args, at |-> now, returned |-> None]
  /\ UNCHANGED <<request, pc, keywords, frames, now>>

clear_expired ==
  /\ ai_cache' = CacheClearExpired(ai_cache, now)
  /\ history' = RecordRemoved(history, DOMAIN ai_cache._cache \ DOMAIN ai_cache'._cache)
  /\ response' = [op |-> "clear_expired", args |-> <<>>, at |-> now, returned |-> None]
  /\ UNCHANGED <<request, pc, keywords, frames, now>>

clear ==
  /\ ai_cache' = NoCache
  /\ history' = RecordRemoved(history, DOMAIN ai_cache._cache)
  /\ response' = [op |-> "clear", args |-> <<>>, at |-> now, returned |-> None]
  /\ UNCHANGED <<request, pc, keywords, frames, now>>

stats ==
  /\ response' = [op |-> "stats", args |-> <<>>, at |-> now,
                  returned |-> CacheStats(ai_cache, now)]
  /\ UNCHANGED <<request, pc, keywords, frames, ai_cache, now, history>>

\* time passes between two calls
tick ==
  /\ now + TickHours <= MaxHours
  /\ now' = now + TickHours
  /\ UNCHANGED <<request, pc, response, keywords, frames, ai_cache, history>>

CacheNext == get \/ set \/ clear_expired \/ clear \/ stats \/ tick

CacheSpec == CacheInit /\ [][CacheNext]_vars

(***************************************************************************)
(* cache_ai_response: callers of one wrapped coroutine function, each      *)
(* suspended at its await while the others run                             *)
(***************************************************************************)
\* str(args) of a tuple of plain strings
StrOfArgs(args) ==
  IF Len(args) = 1 THEN "('" \o args[1] \o "',)"
  ELSE "(" \o Join(", ", [i \in 1..Len(args) |-> "'" \o args[i] \o "'"]) \o ")"

\* cache_key_args = (func.__name__, str(args), str(kwargs))
cache_key_args(args) == <<"tailor_summary", StrOfArgs(args), "{}">>

WrappedArgs == {<<"x">>, <<"none">>}

\* most runs of the wrapped function for the same arguments
MaxRuns == 3

\* what the wrapped function returns
WrappedResult(args) == IF args = <<"none">> THEN None ELSE "summary of " \o args[1]

WrapperInit ==
  /\ request = [h \in Handlers |-> <<>>]
  /\ pc = [h \in Handlers |-> "idle"]
  /\ response = [h \in Handlers |-> None]
  /\ keywords = <<>>
  /\ frames = <<>>
  /\ ai_cache = NoCache
  /\ now = 0
  /\ history = [args \in WrappedArgs |-> <<>>]

\* cached_result = ai_cache.get(*cache_key_args): a hit is returned, a miss
\* starts the wrapped function and suspends the caller at the await
wrapper_get(h) ==
  /\ pc[h] \in {"idle", "returned"}
  /\ \E args \in WrappedArgs :
       \E cached_result \in {CacheGet(ai_cache, cache_key_args(args), now)} :
          /\ request' = [request EXCEPT ![h] = args]
          /\ IF cached_result # None
             THEN /\ response' = [response EXCEPT ![h] = cached_result]
                  /\ pc' = [pc EXCEPT ![h] = "returned"]
                  /\ UNCHANGED history
             ELSE /\ Len(history[args]) < MaxRuns
                  /\ response' = [response EXCEPT ![h] = None]
                  /\ pc' = [pc EXCEPT ![h] = "awaiting"]
                  /\ history' = [history EXCEPT ![args] = Append(@, now)]
  /\ UNCHANGED <<keywords, frames, ai_cache, now>>

\* the wrapped function returns: ai_cache.set(result, *cache_key_args)
wrapper_set(h) ==
  /\ pc[h] = "awaiting"
  /\ ai_cache' = CacheSet(ai_cache, WrappedResult(request[h]), cache_key_args(request[h]), now)
  /\ response' = [response EXCEPT ![h] = WrappedResult(request[h])]
  /\ pc' = [pc EXCEPT ![h] = "returned"]
  /\ UNCHANGED <<request, keywords, frames, now, history>>

WrapperNext ==
  \/ \E h \in Handlers : wrapper_get(h) \/ wrapper_set(h)
  \/ tick

WrapperSpec == WrapperInit /\ [][WrapperNext]_vars

(***************************************************************************)
(* HallucinationDetector and POST /ai/verify-accuracy                      *)
(***************************************************************************)
IsDigitAt(t, i) == i >= 1 /\ i <= Len(t) /\ IsDigit(CharAt(t, i))

\* the greedy extent of \d+ from the digit at position i
RECURSIVE DigitRunEnd(_, _)
DigitRunEnd(t, i) == IF IsDigitAt(t, i + 1) THEN DigitRunEnd(t, i + 1) ELSE i

\* the greedy extent of (?:,\d+)* after position j
RECURSIVE GroupsEnd(_, _)
GroupsEnd(t, j) ==
  IF j + 2 <= Len(t) /\ CharAt(t, j + 1) = "," /\ IsDigitAt(t, j + 2)
  THEN GroupsEnd(t, DigitRunEnd(t, j + 2)) ELSE j

\* the end of the match of \d+(?:,\d+)*(?:\.\d+)?%? that starts at the digit i
NumberEnd(t, i) ==
  LET groups   == GroupsEnd(t, DigitRunEnd(t, i))
      fraction == IF groups + 2 <= Len(t) /\ CharAt(t, groups + 1) = "."
                     /\ IsDigitAt(t, groups + 2)
                  THEN DigitRunEnd(t, groups + 2) ELSE groups
  IN  IF fraction + 1 <= Len(t) /\ CharAt(t, fraction + 1) = "%"
      THEN fraction + 1 ELSE fraction

\* re.findall(r'\d+(?:,\d+)*(?:\.\d+)?%?', text) from position i on
RECURSIVE FindNumbersFrom(_, _)
FindNumbersFrom(t, i) ==
  IF i > Len(t) THEN <<>>
  ELSE IF IsDigitAt(t, i)
       THEN <<SubSeq(t, i, NumberEnd(t, i))>> \o FindNumbersFrom(t, NumberEnd(t, i) + 1)
       ELSE FindNumbersFrom(t, i + 1)

\* re.findall(r'\b\d{4}\b', text) from position i on
RECURSIVE FindYearsFrom(_, _)
FindYearsFrom(t, i) ==
  IF i + 3 > Len(t) THEN <<>>
  ELSE IF /\ \A k \in i..(i + 3) : IsDigitAt(t, k)
          /\ Boundary(t, i - 1)
          /\ Boundary(t, i + 3)
       THEN <<SubSeq(t, i, i + 3)>> \o FindYearsFrom(t, i + 4)
       ELSE FindYearsFrom(t, i + 1)

extract_facts(text) ==
  [numbers |-> FindNumbersFrom(text, 1), dates |-> FindYearsFrom(text, 1)]

check_fact_preservation(original_text, tailored_text) ==
  LET original_facts == extract_facts(original_text)
      tailored_facts == extract_facts(tailored_text)
      new_numbers    == SelectSeq(tailored_facts.numbers,
                                  LAMBDA n : n \notin ToSet(original_facts.numbers))
      new_dates      == SelectSeq(tailored_facts.dates,
                                  LAMBDA d : d \notin ToSet(original_facts.dates))
      fabricated     == Len(new_numbers) > 0 \/ Len(new_dates) > 0
  IN  [safe |-> ~fabricated, new_numbers |-> new_numbers, new_dates |-> new_dates,
       warning |-> IF fabricated THEN "Detected potential fabricated data" ELSE None]

\* the issues of one pair of zip(original_experience, tailored_experience)
EntryIssues(orig, tail) ==
  LET paired == Min(Len(orig.description), Len(tail.description))
      unsafe == SelectSeq([b \in 1..paired |-> b],
                          LAMBDA b : ~check_fact_preservation(orig.description[b],
                                                              tail.description[b]).safe)
  IN  (IF orig.company # tail.company
       THEN <<"Company name changed: " \o orig.company \o " -> " \o tail.company>>
       ELSE <<>>) \o
      (IF orig.role # tail.role
       THEN <<"Role changed: " \o orig.role \o " -> " \o tail.role>> ELSE <<>>) \o
      (IF orig.startDate # tail.startDate \/ orig.endDate # tail.endDate
       THEN <<"Dates changed for " \o orig.company>> ELSE <<>>) \o
      [k \in 1..Len(unsafe) |->
         "Potential fabrication in " \o orig.company \o ": "
         \o check_fact_preservation(orig.description[unsafe[k]],
                                    tail.description[unsafe[k]]).warning]

RECURSIVE IssuesUpTo(_, _, _)
IssuesUpTo(original_experience, tailored_experience, n) ==
  IF n = 0 THEN <<>>
  ELSE IssuesUpTo(original_experience, tailored_experience, n - 1)
       \o EntryIssues(original_experience[n], tailored_experience[n])

verify_experience_accuracy(original_experience, tailored_experience) ==
  LET issues == IssuesUpTo(original_experience, tailored_experience,
                           Min(Len(original_experience), Len(tailored_experience)))
  IN  [safe |-> Len(issues) = 0, issues |-> issues, verified |-> Len(issues) = 0]

\* most entries of a generated tailored experience
MaxTailored == 2

Job(company, role, startDate, endDate, description) ==
  [company |-> company, role |-> role, startDate |-> startDate, endDate |-> endDate,
   description |-> description]

OriginalExperience ==
  <<Job("Acme", "Engineer", "2019-01", "2021-06",
        <<"Led 50 engineers in 2021", "Cut costs by 1,250.5 or 12%">>)>>

\* what a provider may return for the original entry, and the entries it may
\* add after it
TailoredEntries ==
  {Job(c, r, s, e, d) :
     c \in {"Acme", "Initech"}, r \in {"Engineer", "Director"},
     s \in {"2019-01", "2018-01"}, e \in {"2021-06", "Present"},
     d \in {<<"Led 50 engineers in 2021", "Cut costs by 1,250.5 or 12%">>,
            <<"Led engineers", "Cut costs by 12%">>,
            <<"Led 5 engineers in 2021", "Cut costs by 1,250.5 or 12%">>,
            <<"Led 50 engineers in 2021", "Cut costs by 1,250 in 2020">>,
            <<"Led 50 engineers in 2021">>,
            <<"Led 50 engineers in 2021", "Cut costs by 1,250.5 or 12%",
              "Grew revenue 300% in 2022">>,
            <<"Led 50 engineers in 2021", "Cut costs by 1,250.5 or 12%",
              "Mentored interns">>}}

AddedEntries ==
  {Job("Globex", "Chief Architect", "2015-01", "2018-12", <<"Ran 9 data centres">>),
   Job("Acme", "Engineer", "2019-01", "2021-06", <<>>)}

VerifyRequests ==
  {[original |-> OriginalExperience, tailored |-> t] :
     t \in {x \in UNION {[1..n -> TailoredEntries \cup AddedEntries] : n \in 0..MaxTailored} :
              \A i \in 1..Len(x) : (x[i] \in AddedEntries \ TailoredEntries) <=> i > 1}}

VerifyInit ==
  /\ request \in VerifyRequests
  /\ pc = "received"
  /\ response = NoResponse
  /\ keywords = <<>>
  /\ frames = <<>>
  /\ ai_cache = NoCache
  /\ now = 0
  /\ history = NoHistory

\* POST /ai/verify-accuracy
verify_tailored_accuracy ==
  /\ pc = "received"
  /\ \E verification \in {verify_experience_accuracy(request.original, request.tailored)} :
        response' = [status_code |-> 200,
                     result |-> [verified |-> verification.safe,
                                 safe     |-> verification.safe,
                                 issues   |-> verification.issues,
                                 message  |-> IF verification.safe THEN "Resume verified"
                                              ELSE "Issues detected"]]
  /\ pc' = "responded"
  /\ UNCHANGED <<request, keywords, frames, ai_cache, now, history>>

VerifyNext == verify_tailored_accuracy

VerifySpec == VerifyInit /\ [][VerifyNext]_vars

(***************************************************************************)
(* Properties of the scoring engine                                        *)
(***************************************************************************)
Responded == pc = "responded"

\* the handler answered with the scorer's report
Answered == Responded /\ response.status_code = 200

report == response.result

resume == request.profileData

job == request.jobDescription

\* For each distinct keyword of a keyword list, how many keywords precede it
\* in frequency order: those that occur more often, and of those that occur
\* equally often the ones that occur first
FrequencyOrder(kws) ==
  LET D     == ToSet(kws)
      freq  == [w \in D |-> Cardinality({i \in 1..Len(kws) : kws[i] = w})]
      first == [w \in D |-> CHOOSE i \in 1..Len(kws) :
                              kws[i] = w /\ \A j \in 1..(i - 1) : kws[j] # w]
  IN  [w \in D |-> Cardinality({v \in D : \/ freq[v] > freq[w]
                                          \/ freq[v] = freq[w] /\ first[v] < first[w]})]

\* the n first keywords of a frequency order
TopKeywords(order, n) == {w \in DOMAIN order : order[w] < n}

\* C1: every sub-score of the report and its overall score are integers in 0..100
C1_ScoresInRange ==
  Responded =>
    /\ response.status_code = 200
    /\ report.breakdown.keyword_match \in 0..100
    /\ report.breakdown.formatting \in 0..100
    /\ report.breakdown.experience_relevance \in 0..100
    /\ report.breakdown.skills_alignment \in 0..100
    /\ report.score \in 0..100

\* a resume whose unclamped formatting total exceeds 100 has been scored
C1_Witness ==
  /\ Answered
  /\ FormattingScore(resume) > 100
  /\ report.breakdown.formatting = 100
  /\ report.score > 0

\* C2: the overall score is floor((40k + 15f + 25e + 20s) / 100) of the
\* breakdown (k, f, e, s); the breakdown (60, 80, 50, 70) gives 62
C2_WeightedSum ==
  Answered =>
    /\ report.score = (40 * report.breakdown.keyword_match
                       + 15 * report.breakdown.formatting
                       + 25 * report.breakdown.experience_relevance
                       + 20 * report.breakdown.skills_alignment) \div 100
    /\ (report.breakdown = [keyword_match |-> 60, formatting |-> 80,
                            experience_relevance |-> 50, skills_alignment |-> 70]
          => report.score = 62)

\* the breakdown (60, 80, 50, 70) has been scored 62
C2_Witness ==
  /\ Answered
  /\ report.breakdown = [keyword_match |-> 60, formatting |-> 80,
                         experience_relevance |-> 50, skills_alignment |-> 70]
  /\ report.score = 62

\* C3: missing_keywords is the first 10, in frequency order, of those of the 15
\* most frequent job keywords that the haystack does not hold: at most 10
\* elements, each one of the top 15 and absent from the haystack
C3_MissingKeywords ==
  Answered =>
    LET missing  == report.missing_keywords
        order    == FrequencyOrder(extract_keywords(job))
        haystack == resume_text(resume)
        top      == TopKeywords(order, 15)
        absent   == {w \in top : ~Contains(haystack, w)}
    IN  /\ Len(missing) = Min(10, Cardinality(absent))
        /\ Len(missing) <= 10
        /\ \A i \in 1..Len(missing) :
             /\ missing[i] \in top
             /\ ~Contains(haystack, missing[i])
             /\ Cardinality({v \in absent : order[v] < order[missing[i]]}) = i - 1

\* more than 10 of the top 15 of more than 15 keywords are absent, 10 are
\* returned, and the first returned is not the first keyword of the text
C3_Witness ==
  /\ Answered
  /\ Len(report.missing_keywords) = 10
  /\ LET kws      == extract_keywords(job)
         order    == FrequencyOrder(kws)
         haystack == resume_text(resume)
     IN  /\ Cardinality(DOMAIN order) > 15
         /\ Cardinality({w \in TopKeywords(order, 15) : ~Contains(haystack, w)}) > 10
         /\ report.missing_keywords[1] # kws[1]

\* C4: keyword_match is floor(100 * m / n) for the n <= 30 important keywords
\* of which m occur in the haystack, and 0 when there is no keyword
C4_MatchPercentage ==
  Answered =>
    LET order     == FrequencyOrder(extract_keywords(job))
        haystack  == resume_text(resume)
        important == TopKeywords(order, 30)
        n == Cardinality(important)
        m == Cardinality({w \in important : Contains(haystack, w)})
    IN  /\ n <= 30
        /\ n = Min(30, Cardinality(DOMAIN order))
        /\ report.breakdown.keyword_match = IF n = 0 THEN 0 ELSE (100 * m) \div n

\* a job description of more than 30 keywords, some found, has been scored
C4_Witness ==
  /\ Answered
  /\ report.breakdown.keyword_match \in 1..99
  /\ Cardinality(ToSet(extract_keywords(job))) > 30

\* C5: the formatting score is 100 - 15 [no email] - 10 [no phone]
\* - 30 [no experience] - 20 [neither languages nor tools] - 15 [no education]
\* + 5 [linkedin] + 5 [a project], clamped to 0..100; the resume with none of
\* these scores 10
C5_FormattingScore ==
  Answered =>
    LET total == 100
                 - (IF resume.personalInfo.email = "" THEN 15 ELSE 0)
                 - (IF resume.personalInfo.phone = "" THEN 10 ELSE 0)
                 - (IF resume.experience = <<>> THEN 30 ELSE 0)
                 - (IF resume.skills.languages = <<>> /\ resume.skills.tools = <<>>
                    THEN 20 ELSE 0)
                 - (IF resume.education = <<>> THEN 15 ELSE 0)
                 + (IF resume.personalInfo.linkedin # "" THEN 5 ELSE 0)
                 + (IF resume.projects # <<>> THEN 5 ELSE 0)
    IN  /\ report.breakdown.formatting =
             IF total < 0 THEN 0 ELSE IF total > 100 THEN 100 ELSE total
        /\ (resume = EmptyResume => report.breakdown.formatting = 10)

\* the resume with no section at all has been scored 10
C5_Witness == Answered /\ resume = EmptyResume /\ report.breakdown.formatting = 10

\* the formatting score of the resume without its experience entries
FormattingWithoutExperience == score_formatting([resume EXCEPT !.experience = <<>>])

\* C6 as stated: removing the only experience entry lowers the formatting score
\* by exactly 30
C6_ExactlyThirtyLess ==
  (Answered /\ Len(resume.experience) = 1) =>
    FormattingWithoutExperience = report.breakdown.formatting - 30

\* C6 amended: removing the only experience entry lowers the formatting score
\* by exactly 30, unless the resume has email, phone, education and a language
\* or tool (no deduction): its score is then clamped to 100 and the reduction
\* is 30 less 5 for a linkedin link and 5 for a project
C6_ThirtyLessUnlessClamped ==
  (Answered /\ Len(resume.experience) = 1) =>
    LET complete == /\ resume.personalInfo.email # ""
                    /\ resume.personalInfo.phone # ""
                    /\ resume.education # <<>>
                    /\ (resume.skills.languages # <<>> \/ resume.skills.tools # <<>>)
        bonus    == (IF resume.personalInfo.linkedin # "" THEN 5 ELSE 0)
                    + (IF resume.projects # <<>> THEN 5 ELSE 0)
    IN  report.breakdown.formatting - FormattingWithoutExperience =
          IF complete THEN 30 - bonus ELSE 30

\* a resume with one entry scored 100 scores 80 without the entry
C6_Witness ==
  /\ Answered
  /\ Len(resume.experience) = 1
  /\ report.breakdown.formatting = 100
  /\ FormattingWithoutExperience = 80

\* C7: no input makes the scorer raise; without job keywords keyword_match is 0
\* and nothing is missing, without experience experience_relevance is 0,
\* without skills skills_alignment is 0, and the report is complete
C7_DegenerateInputs ==
  Responded =>
    /\ response.status_code = 200
    /\ ~report.raised
    /\ (extract_keywords(job) = <<>> =>
          report.breakdown.keyword_match = 0 /\ report.missing_keywords = <<>>)
    /\ (resume.experience = <<>> => report.breakdown.experience_relevance = 0)
    /\ (all_skills(resume) = <<>> => report.breakdown.skills_alignment = 0)
    /\ report.improvements # <<>>
    /\ report.feedback # ""

\* a resume without experience and skills has been scored against a job
\* description without keywords
C7_Witness ==
  /\ Answered
  /\ extract_keywords(job) = <<>>
  /\ resume.experience = <<>>
  /\ all_skills(resume) = <<>>
  /\ report.breakdown.keyword_match = 0
  /\ report.breakdown.experience_relevance = 0
  /\ report.breakdown.skills_alignment = 0

\* the number of job keywords entry i of the resume shares with the job
EntryOverlap(J, i) ==
  Cardinality(J \cap ToSet(extract_keywords(Join(" ", resume.experience[i].description))))

RECURSIVE SumTo(_, _)
SumTo(f, n) == IF n = 0 THEN 0 ELSE f[n] + SumTo(f, n - 1)

\* C8: with at least one entry, experience_relevance is the floor of the mean
\* over the entries of min(100, 100 * |J \cap E_i| / max(|J|, 1))
C8_FloorOfMeanRelevance ==
  (Answered /\ resume.experience # <<>>) =>
    LET n    == Len(resume.experience)
        J    == ToSet(extract_keywords(job))
        j    == Max(Cardinality(J), 1)
        \* j times the relevance of each entry
        part == [i \in 1..n |-> Min(100 * j, 100 * EntryOverlap(J, i))]
    IN  report.breakdown.experience_relevance = SumTo(part, n) \div (j * n)

\* C9: with at least one skill, skills_alignment is floor(100 * matched / total)
\* where matched counts the skills whose lowercase form occurs in the lowercase
\* job description
C9_FloorOfSkillRatio ==
  (Answered /\ all_skills(resume) # <<>>) =>
    LET skills  == all_skills(resume)
        lowered == Lower(job)
        matched == Cardinality({i \in 1..Len(skills) : Contains(lowered, Lower(skills[i]))})
    IN  report.breakdown.skills_alignment = (100 * matched) \div Len(skills)

\* C11: adding a keyword of the job description verbatim to additionalInfo,
\* every other field fixed, does not decrease keyword_match: the score after
\* the addition is at least the score before it
C11_AddingKeywordNeverLowers ==
  [][(pc = "received" /\ response.status_code = 200 /\ pc' = "responded") =>
       /\ response'.status_code = 200
       /\ response'.result.breakdown.keyword_match >=
            response.result.breakdown.keyword_match]_vars

\* a resume scored again after a keyword it lacked was added: the score rose
C11_Witness ==
  /\ Answered
  /\ resume.additionalInfo = "kac"
  /\ job = JobText(2, "mixed")
  /\ report.breakdown.keyword_match = 50

\* C12: however the invocations of concurrent handlers are interleaved, each
\* returns exactly the report calculate_comprehensive_score returns for its
\* request when run alone
C12_IsolatedInvocations ==
  \A h \in Handlers :
     pc[h] = "responded" =>
       LET alone == calculate_comprehensive_score(request[h].profileData,
                                                  request[h].jobDescription)
       IN  /\ response[h].status_code = 200
           /\ response[h].result = alone

\* two handlers with different requests have both answered
C12_Witness ==
  /\ \A h \in Handlers : pc[h] = "responded" /\ response[h].status_code = 200
  /\ request[1] # request[2]
  /\ response[1].result.score # response[2].result.score

\* C13: no step of a scoring call changes the resume or the job description
\* it was given, whatever calls came before it
C13_InputsUnchanged == [][request' = request]_vars

\* every handler has answered and the resume that lists databases is as sent
C13_Witness ==
  /\ \A h \in Handlers : pc[h] = "responded"
  /\ request[1] = WeightedExample
  /\ frames[1].skills_score = 70

\* C14: every AI endpoint answers 428 Precondition Required when the
\* authenticated user has no stored AI provider settings
C14_PreconditionRequired ==
  (Responded /\ request.user_id # "" /\ request.user_config = None) =>
    response.status_code = HTTP_428_PRECONDITION_REQUIRED

Extracted == pc = "extracted"

\* a token the filter has to keep: at least 3 characters and no stop word
LongEnoughAndNoStopWord(w) == Len(w) >= 3 /\ w \notin stop_words

\* C15: extract_keywords returns the tokens of the lowercased text (the matches
\* of the token pattern) in order of occurrence, duplicates retained; every
\* returned token is lowercase, has at least 3 characters and is no stop word,
\* and no token that is both is dropped
C15_KeywordsAreTheFilteredTokens ==
  Extracted =>
    LET tokens == FindAll(Lower(job))
    IN  /\ keywords = SelectSeq(tokens, LongEnoughAndNoStopWord)
        /\ \A i \in 1..Len(keywords) :
              /\ Len(keywords[i]) >= 3
              /\ keywords[i] \notin stop_words
              /\ keywords[i] = Lower(keywords[i])

\* a text whose tokens are a stop word, a duplicate pair and a short token:
\* only the pair is returned, twice and in lowercase
C15_Witness ==
  /\ Extracted
  /\ job = "The api an API"
  /\ keywords = <<"api", "api">>

\* the word w stands in the text between spaces or the ends of the text
HasWord(text, w) == Contains(" " \o Lower(text) \o " ", " " \o w \o " ")

\* C16: no returned token contains '/': "api/rest" yields "api" and "rest"
C16_SplitAtSlash ==
  Extracted =>
    /\ \A i \in 1..Len(keywords) : ~Contains(keywords[i], "/")
    /\ job = "api/rest" => keywords = <<"api", "rest">>

\* C17: a text with the word "c++" or "node.js" between spaces yields that
\* token intact
C17_TechnologyTokensIntact ==
  Extracted =>
    \A w \in {"c++", "node.js"} :
       HasWord(job, w) => \E i \in 1..Len(keywords) : keywords[i] = w

\* calculate_keyword_match has returned to the handler
KeywordScored == pc[1] = "keyword_scored"

\* C18: the important keywords are the 30 first distinct job keywords in
\* descending frequency, keywords of equal frequency in order of their first
\* occurrence, also where the list is cut at 30 and, for the missing
\* keywords, at 15
C18_MostFrequentFirstOccurrenceFirst ==
  KeywordScored =>
    LET text      == request[1].jobDescription
        order     == FrequencyOrder(extract_keywords(text))
        important == important_keywords(text)
        missing   == frames[1].missing_keywords
    IN  /\ Len(important) = Min(30, Cardinality(DOMAIN order))
        /\ \A r \in 1..Len(important) : order[important[r]] = r - 1
        /\ \A i \in 1..Len(missing) : order[missing[i]] < 15

\* more than 30 keywords whose first occurrences are in reverse alphabetical
\* order, half of them occurring twice: the first important keyword is the
\* first one that occurs twice, not the first of the text
C18_Witness ==
  /\ KeywordScored
  /\ request[1].jobDescription = TieJobText(MaxJobKeywords)
  /\ important_keywords(request[1].jobDescription)[1] =
       Word(MaxJobKeywords - (MaxJobKeywords % 2))
  /\ Len(important_keywords(request[1].jobDescription)) = 30

\* the words of a text: its longest pieces without a space
WordsOf(text) ==
  LET n      == Len(text)
      starts == {i \in 1..n : CharAt(text, i) # " " /\ (i = 1 \/ CharAt(text, i - 1) = " ")}
      ends   == {j \in 1..n : CharAt(text, j) # " " /\ (j = n \/ CharAt(text, j + 1) = " ")}
  IN  {SubSeq(text, i, CHOOSE j \in ends : j >= i /\ \A k \in ends : k >= i => j <= k) :
         i \in starts}

\* C19: a job keyword is counted as found, and is not reported missing,
\* whenever some word of the haystack contains it, be it the whole word or a
\* part of a longer one ("java" in "javascript")
C19_SubstringMatching ==
  KeywordScored =>
    LET order     == FrequencyOrder(extract_keywords(request[1].jobDescription))
        important == TopKeywords(order, 30)
        words     == WordsOf(resume_text(request[1].profileData))
        found     == {kw \in important : \E w \in words : Contains(w, kw)}
        n         == Cardinality(important)
    IN  /\ \A kw \in found : kw \notin ToSet(frames[1].missing_keywords)
        /\ frames[1].keyword_score =
             IF n = 0 THEN 0 ELSE (100 * Cardinality(found)) \div n

\* "java" is a job keyword and the resume has it only inside "javascript":
\* it is counted (1 of 5 keywords) and not reported missing
C19_Witness ==
  /\ KeywordScored
  /\ request[1].jobDescription = "Java and C++ developer, Node.js, CI/CD, REST/API"
  /\ "java" \notin WordsOf(resume_text(request[1].profileData))
  /\ "javascript" \in WordsOf(resume_text(request[1].profileData))
  /\ "java" \notin ToSet(frames[1].missing_keywords)
  /\ frames[1].keyword_score = 20

\* the fields of a resume the keyword matcher does not read, in lowercase
OtherFields(r) ==
  {Lower(r.personalInfo.email), Lower(r.personalInfo.phone), Lower(r.personalInfo.linkedin)}
  \cup {Lower(r.experience[i].company) : i \in 1..Len(r.experience)}
  \cup {Lower(r.experience[i].role) : i \in 1..Len(r.experience)}
  \cup {Lower(r.education[i]) : i \in 1..Len(r.education)}
  \cup {Lower(r.projects[i]) : i \in 1..Len(r.projects)}

\* C20: the haystack is the lowercase of additionalInfo, the languages, the
\* databases, the cloud skills, the tools and the bullets of all entries, in
\* that order and joined by spaces; a keyword that occurs only in other fields
\* is counted as not found
C20_HaystackFields ==
  KeywordScored =>
    LET r         == request[1].profileData
        bullets   == [i \in 1..Len(r.experience) |-> Join(" ", r.experience[i].description)]
        haystack  == Lower(r.additionalInfo \o " " \o
                           Join(" ", r.skills.languages) \o " " \o
                           Join(" ", r.skills.databases) \o " " \o
                           Join(" ", r.skills.cloud) \o " " \o
                           Join(" ", r.skills.tools) \o " " \o
                           Join(" ", bullets))
        order     == FrequencyOrder(extract_keywords(request[1].jobDescription))
        important == TopKeywords(order, 30)
        elsewhere == {kw \in important : /\ ~Contains(haystack, kw)
                                          /\ \E f \in OtherFields(r) : Contains(f, kw)}
        found     == {kw \in important : Contains(haystack, kw)}
        n         == Cardinality(important)
    IN  /\ resume_text(r) = haystack
        /\ frames[1].keyword_score =
             IF n = 0 THEN 0 ELSE (100 * Cardinality(found)) \div n
        /\ \A kw \in elsewhere :
              \/ kw \in ToSet(frames[1].missing_keywords)
              \/ Cardinality({v \in important \ found : order[v] < order[kw]}) >= 10
              \/ order[kw] >= 15

\* "acme" is a job keyword and the resume has it only as a company: it is
\* reported missing, as is "scheduler", which the resume has only as a project
C20_Witness ==
  /\ KeywordScored
  /\ Len(request[1].profileData.experience) = 1
  /\ request[1].profileData.experience[1].company = "Acme"
  /\ request[1].profileData.projects = <<"Scheduler">>
  /\ "acme" \in ToSet(frames[1].missing_keywords)
  /\ "scheduler" \in ToSet(frames[1].missing_keywords)
  /\ ~Contains(resume_text(request[1].profileData), "acme")


C22_StrengthsPerThreshold ==
  Answered =>
    LET b        == report.breakdown
        digit    == \E i \in 1..Len(resume.experience) :
                      \E k \in 1..Len(resume.experience[i].description) :
                        \E p \in 1..Len(resume.experience[i].description[k]) :
                          CharAt(resume.experience[i].description[k], p) \in DigitSet
        expected == (IF b.keyword_match >= 70 THEN {"Strong keyword optimization"} ELSE {})
                    \cup (IF b.formatting >= 85
                          THEN {"Well-structured and complete resume"} ELSE {})
                    \cup (IF b.experience_relevance >= 70
                          THEN {"Highly relevant work experience"} ELSE {})
                    \cup (IF b.skills_alignment >= 70
                          THEN {"Skills strongly aligned with job requirements"} ELSE {})
                    \cup (IF digit THEN {"Good use of quantified achievements"} ELSE {})
    IN  /\ ToSet(report.strengths) = expected
        /\ Len(report.strengths) = Cardinality(expected)

\* only the second entry has a bullet with a digit, and the
\* quantified-achievements statement is returned next to a threshold statement
C22_Witness ==
  /\ Answered
  /\ Len(resume.experience) = 2
  /\ \A k \in 1..Len(resume.experience[1].description) :
        ~HasDigit(resume.experience[1].description[k])
  /\ "Good use of quantified achievements" \in ToSet(report.strengths)
  /\ Len(report.strengths) >= 2

\* C23: the feedback is the tier message of the overall score (excellent from
\* 80, good from 60 to 79, needs optimization below 60), then the first two
\* improvements, or the only one, all joined by single spaces
C23_FeedbackString ==
  Answered =>
    LET tier == IF report.score >= 80 THEN "Excellent ATS compatibility!"
                ELSE IF report.score >= 60
                     THEN "Good ATS compatibility with room for improvement."
                     ELSE "Needs optimization for better ATS compatibility."
        imp  == report.improvements
    IN  /\ Len(imp) >= 1
        /\ report.feedback =
             IF Len(imp) = 1 THEN tier \o " " \o imp[1]
             ELSE tier \o " " \o imp[1] \o " " \o imp[2]

\* a report of the middle tier with two improvements, both in the feedback
C23_Witness ==
  /\ Answered
  /\ report.score \in 60..69
  /\ Len(report.improvements) = 2
  /\ report.feedback =
       "Good ATS compatibility with room for improvement. "
       \o report.improvements[1] \o " " \o report.improvements[2]

\* C24: a report whose keyword_match is 100 has no missing keywords
C24_FullMatchNothingMissing ==
  Answered => (report.breakdown.keyword_match = 100 => report.missing_keywords = <<>>)

\* every one of 30 important keywords is in the resume
C24_Witness ==
  /\ Answered
  /\ report.breakdown.keyword_match = 100
  /\ Len(important_keywords(job)) = 30
  /\ report.missing_keywords = <<>>


\* C25: whichever provider calls of tailor-resume fail and in whatever order
\* the five complete, the request is answered 200 with an empty summary for a
\* failed summary call, the original experience, skills, projects or education
\* for the respective failed call, and the tailored value of every call that
\* succeeded
C25_FailedSectionsFallBack ==
  (pc = "responded" /\ request.user_config # None) =>
    /\ response.status_code = 200
    /\ \A s \in ToSet(Sections) :
          response.result.tailoredResume[s] =
            IF ~request.raises[s] THEN TailoredValue(s, request.profileData)
            ELSE IF s = "summary" THEN ""
            ELSE request.profileData[s]

\* the last call of gather completed first and the first one last, the summary
\* and the projects call failed, the three others succeeded
C25_Witness ==
  /\ pc = "responded"
  /\ response.status_code = 200
  /\ frames.completed[1] = "education"
  /\ frames.completed[5] = "summary"
  /\ request.raises = [s \in ToSet(Sections) |-> s \in {"summary", "projects"}]
  /\ response.result.tailoredResume.summary = ""
  /\ response.result.tailoredResume.projects = <<"Scheduler">>
  /\ response.result.tailoredResume.experience[1].description = <<"Tailored bullet">>


\* C26: batch-tailor reports the first 5 job descriptions of the request, in
\* their order; a job for which a provider call raised is reported with status
\* "error", and every other job with its own successful result whatever
\* happens to the jobs beside it
C26_FailedJobsReportError ==
  (pc = "responded" /\ request.user_config # None) =>
    LET jobs    == request.jobDescriptions
        results == response.result.results
    IN  /\ response.status_code = 200
        /\ Len(results) = Min(5, Len(jobs))
        /\ \A i \in 1..Len(results) :
              /\ results[i].job_description =
                   SubSeq(jobs[i], 1, Min(100, Len(jobs[i]))) \o "..."
              /\ IF request.raises[jobs[i]] # {}
                 THEN results[i].status = "error"
                 ELSE /\ results[i].status = "success"
                      /\ results[i].summary = "Tailored summary"
                      /\ results[i].experience_count = Len(request.profileData.experience)


\* C27: get returns the value of the most recent set for the same arguments
\* exactly when that set is at most the TTL old and neither clear nor
\* clear_expired has removed the entry since, and None otherwise; so a later
\* set replaces the value and restarts the TTL, and an expired entry is not
\* returned while it is still stored
C27_GetReturnsFreshValue ==
  response.op = "get" =>
    LET args == response.args
    IN  response.returned =
          IF /\ args \in DOMAIN history
             /\ ~history[args].removed
             /\ response.at - history[args].at <= 24
          THEN history[args].value
          ELSE None

\* get has just answered None for an entry that is older than the TTL and still
\* stored, while an entry set again at the age of the TTL exactly is stored too
C27_Witness ==
  /\ response.op = "get"
  /\ response.at = now
  /\ response.returned = None
  /\ _generate_key(response.args) \in DOMAIN ai_cache._cache
  /\ ~history[response.args].removed
  /\ \E args \in CacheArgs :
        /\ _generate_key(args) \in DOMAIN ai_cache._cache
        /\ now - ai_cache._timestamps[_generate_key(args)] = 24
        /\ CacheGet(ai_cache, args, now) \in CacheValues

\* the entries of a cache that a get at time t does not return
Stale(cache, t) == {k \in DOMAIN cache._cache : t - cache._timestamps[k] > 24}

\* C28: the value store and the timestamp store always have the same keys;
\* clear_expired removes the entries older than the TTL and no other, and the
\* others stay retrievable with their values; stats never reports more
\* expired entries than entries
C28_StoresAgree ==
  /\ [](/\ DOMAIN ai_cache._cache = DOMAIN ai_cache._timestamps
        /\ response.op = "stats" =>
             /\ response.returned.expired_entries <= response.returned.total_entries
             /\ response.at = now =>
                  /\ response.returned.total_entries = Cardinality(DOMAIN ai_cache._cache)
                  /\ response.returned.expired_entries = Cardinality(Stale(ai_cache, now)))
  /\ [][clear_expired =>
          /\ DOMAIN ai_cache'._cache = DOMAIN ai_cache._cache \ Stale(ai_cache, now)
          /\ \A args \in CacheArgs :
                _generate_key(args) \in DOMAIN ai_cache'._cache =>
                  CacheGet(ai_cache', args, now') = ai_cache._cache[_generate_key(args)]]_vars

\* clear_expired has just removed an expired entry and left a fresh one
C28_Witness ==
  /\ response.op = "clear_expired"
  /\ response.at = now
  /\ \E k \in DOMAIN history : history[k].removed /\ now - history[k].at > 24
  /\ \E args \in CacheArgs : CacheGet(ai_cache, args, now) \in CacheValues


\* C29: a wrapped function that returns a result other than None is run at
\* most once for given arguments within a TTL window: two runs for the same
\* arguments start more than the TTL apart, also when a second call starts
\* while the first is still awaiting the function
C29_AtMostOncePerWindow ==
  \A args \in DOMAIN history :
     WrappedResult(args) # None =>
       \A i, j \in 1..Len(history[args]) :
          i < j => history[args][j] - history[args][i] > 24


\* whether the tailored experience differs from the original in a company, a
\* role or a date, or has in a bullet a number or a year that the original
\* bullet at the same position has not; an entry or a bullet without a
\* counterpart in the original has nothing to agree with
Differs(original, tailored) ==
  \E i \in 1..Len(tailored) :
     \/ i > Len(original)
     \/ /\ i <= Len(original)
        /\ \/ original[i].company # tailored[i].company
           \/ original[i].role # tailored[i].role
           \/ original[i].startDate # tailored[i].startDate
           \/ original[i].endDate # tailored[i].endDate
           \/ \E b \in 1..Len(tailored[i].description) :
                LET facts == extract_facts(tailored[i].description[b])
                    known == IF b <= Len(original[i].description)
                             THEN extract_facts(original[i].description[b])
                             ELSE [numbers |-> <<>>, dates |-> <<>>]
                IN  \/ ToSet(facts.numbers) \ ToSet(known.numbers) # {}
                    \/ ToSet(facts.dates) \ ToSet(known.dates) # {}

\* C30: verify_experience_accuracy reports safe = verified = false whenever the
\* tailored experience differs from the original in a company, role or date or
\* has a bullet with a new number or year, also when the entry or bullet has no
\* counterpart in the original; it reports safe = true only when there is no
\* such difference
C30_DifferencesAreUnsafe ==
  pc = "responded" =>
    /\ response.result.safe = response.result.verified
    /\ response.result.safe = ~Differs(request.original, request.tailored)

=============================================================================
